---- MODULE Spec2Model ----
(***************************************************************************)
(* Runtime bootstrap and reboot recovery of libpod (makeRuntime and        *)
(* Runtime.refresh), run by independent OS processes that share one tmp   *)
(* directory holding the boot-lifetime lock file (alive.lck) and the      *)
(* alive marker (alive). Each client invocation is a short-lived process   *)
(* of its own that bootstraps one Runtime.                                 *)
(***************************************************************************)
EXTENDS Integers, Sequences, FiniteSets, TLC

\* Bounds of the model.
NumProcs == 2        \* OS processes started within one boot cycle
MaxPerKind == 1      \* containers, pods and volumes of each kind in the state
ShutdownCtrs == 2    \* containers in the state of a runtime that is shut down
PoolSize == 3        \* the number of locks of a lock manager's pool
MaxOps == 6          \* calls made on one lock manager
MaxLive == 2         \* names of the entities that are created and removed
IdLen == 2           \* letters of a container ID
MaxRecords == 3      \* container records in the state store that is looked up
MaxCtrs == 4         \* containers that Info counts
MaxLocks == 2        \* largest configured NumLocks and largest lock pool
NumThreads == 3      \* threads of one process that call into its Runtime
NsLen == 3           \* pieces of a namespace string that is parsed
MaxItems == 2        \* images that one request lists or pulls
MaxStopTimeout == 2  \* largest stop timeout of a generated unit

Procs == 1..NumProcs
Kinds == <<"ctr", "pod", "vol">>

VARIABLES
    proc,       \* per process: position in makeRuntime, its locals, its euid
    runtime,    \* per process: the fields of its Runtime object
    pass,       \* per process: progress of Runtime.refresh: the entities still to
                \* refresh, the refreshes invoked, whether an error was logged
    stages,     \* per process: the bootstrap stages passed, in order
    aliveLock,  \* the processes holding the flock on TmpDir/alive.lck
    aliveFile,  \* TRUE iff TmpDir/alive exists
    state,      \* the persisted entities: lists of containers, pods, volumes
    user,       \* how the processes sharing the tmp directory run: as root, as an
                \* unprivileged user inside its user namespace, or outside it
    boot,       \* history of the current boot cycle: how often the alive marker was
                \* found absent, how often each entity's refresh was invoked
    lockMedium, \* the lock media on disk: the file lock directory and the shared
                \* memory segment with the number of locks it was created with
    lockCall,   \* the last call of getLockManager: its inputs and what it did
    ociConfig,  \* the OCI runtime settings of a configuration
    ociResult,  \* the OCI runtime registry and default that makeRuntime built
    life,       \* one Runtime object from construction to shutdown
    ctrRunning, \* the containers that are running
    call,       \* the last call made on the Runtime object and what it returned
    ctx,        \* the context passed to NewRuntime: whether it was cancelled and
                \* where the bootstrap stood then
    allocated,  \* the lock indices of a lock manager's pool that are allocated
    poolCall,   \* the last call on the lock manager or on an entity
    poolLog,    \* the calls made on the lock manager, in order, with results
    entityLock, \* per entity name: the lock index in its record, if it is live
    held,       \* the pairs of a process and a lock index it holds locked
    waiting,    \* the pairs of a process and a lock index whose lock call has
                \* not returned
    containers, \* the container records of a state store
    lookupCall, \* the last lookup in the state store: its key and its result
    infoCall,   \* the container counts of the last Info call
    threads,    \* one Runtime shared by the threads of a process: its valid
                \* flag, the holders of its RWMutex, each thread's position
    nsCall,     \* the last parse of a namespace string and its result
    request,    \* one request to an image handler of the API: the path taken,
                \* the responses written, the temporary files on disk
    unitCall    \* the last call of the systemd unit generator

\* The variables of the bootstrap of concurrent processes, and those of the
\* specifications of getLockManager, of the OCI runtime registry and of the
\* life of a single Runtime, which each hold the others' variables fixed.
bootVars == <<proc, runtime, pass, stages, aliveLock, aliveFile, state, user, boot>>
poolVars == <<allocated, poolCall, poolLog, entityLock, held, waiting>>
storeVars == <<containers, lookupCall, infoCall>>
apiVars == <<threads, nsCall, request, unitCall>>
moreVars == <<ctx, poolVars, storeVars, apiVars>>
baseVars == <<bootVars, lockMedium, lockCall, ociConfig, ociResult, life, ctrRunning, call>>
nonCtxVars == <<baseVars, poolVars, storeVars, apiVars>>
nonPoolVars == <<baseVars, ctx, storeVars, apiVars>>
nonStoreVars == <<baseVars, ctx, poolVars, apiVars>>
nonApiVars == <<baseVars, ctx, poolVars, storeVars>>
unitVars == <<lockMedium, lockCall, ociConfig, ociResult, life, ctrRunning, call, moreVars>>
vars == <<bootVars, unitVars>>

----------------------------------------------------------------------------
\* The entities a state store of the given sizes holds.
EntityList(kind, n) == [i \in 1..n |-> <<kind, i>>]
Entities == { <<Kinds[k], i>> : k \in 1..3, i \in 1..MaxPerKind }
Range(s) == { s[i] : i \in 1..Len(s) }
StateEntities == Range(state.ctrs) \cup Range(state.pods) \cup Range(state.vols)

\* os.Geteuid() == 0 and rootless.IsRootless(): root has euid 0 and is not
\* rootless; an unprivileged user is rootless, with euid 0 inside the user
\* namespace it re-execs into and its own uid outside it.
Euid0 == user # "user"
IsRootless == user # "root"

NewProc == [pc |-> "new", err |-> "nil", doRefresh |-> FALSE,
            statErr |-> "none", locked |-> FALSE, handle |-> "nil"]
NewRuntime == [valid |-> FALSE, doRenumber |-> FALSE, namespaceSet |-> FALSE]
NewPass == [todo |-> <<>>, invoked |-> [e \in Entities |-> 0], logged |-> FALSE,
            listErr |-> FALSE]
NewBoot == [absentChecks |-> 0,
            refreshCount |-> [e \in Entities |-> 0]]

\* The values of the variables that a specification holds fixed.
NoMedium == [file |-> FALSE, shm |-> 0]
NoLockCall == [lockType |-> "none", numLocks |-> 0, doRenumber |-> FALSE, openErr |-> "nil",
               before |-> NoMedium, err |-> "nil", created |-> FALSE, removed |-> FALSE,
               handle |-> "nil", opened |-> FALSE, stateType |-> "none",
               stateOpened |-> FALSE]
LockIdle == lockMedium = NoMedium /\ lockCall = NoLockCall
NoRuntime == [name |-> "", site |-> "none"]
NoOCIConfig == [RuntimePath |-> [isNil |-> TRUE, list |-> <<>>], OCIRuntimes |-> {},
                OCIRuntime |-> [abs |-> FALSE, parts |-> <<>>]]
NoOCIResult == [err |-> "nil", at |-> "none", ociRuntimes |-> [n \in {} |-> NoRuntime],
                defaultOCIRuntime |-> NoRuntime, handle |-> "nil",
                legacyOK |-> FALSE, tableOK |-> {}, namedOK |-> FALSE]
OCIIdle == ociConfig = NoOCIConfig /\ ociResult = NoOCIResult
NewLife == [pc |-> "new", valid |-> FALSE, store |-> "nil", failed |-> "none",
            shut |-> FALSE, force |-> FALSE, deferred |-> FALSE, listed |-> "none",
            todo |-> <<>>, storeErr |-> "nil",
            stops |-> [c \in Range(EntityList("ctr", ShutdownCtrs)) |-> 0],
            stopErrs |-> {},
            storeShutdowns |-> 0, stateCloses |-> 0]
NoCall == [op |-> "none", after |-> FALSE, force |-> FALSE, err |-> "none",
           attempted |-> FALSE]
LifeIdle == life = NewLife /\ ctrRunning = {} /\ call = NoCall
NoCtx == [done |-> FALSE, at |-> "none", left |-> 0]
NoIndex == -1
PoolEntities == 1..MaxLive
NoPoolCall == [op |-> "none", proc |-> 0, entity |-> 0, index |-> NoIndex, err |-> "nil",
               before |-> {}, freedBefore |-> NoIndex]
PoolIdle ==
    /\ allocated = {} /\ poolCall = NoPoolCall /\ poolLog = <<>>
    /\ entityLock = [e \in PoolEntities |-> NoIndex] /\ held = {} /\ waiting = {}
NoRecord == [id |-> <<>>, name |-> <<>>, status |-> "none"]
NoLookup == [key |-> <<>>, err |-> "nil", rec |-> NoRecord]
NoInfo == [asked |-> FALSE, number |-> 0, running |-> 0, paused |-> 0, stopped |-> 0]
StoreIdle == containers = {} /\ lookupCall = NoLookup /\ infoCall = NoInfo
Threads == 1..NumThreads
NewThread == [pc |-> "idle", op |-> "none", sawValid |-> FALSE, err |-> "none",
              lateCopy |-> FALSE]
NoThreads == [valid |-> FALSE, readers |-> {}, writers |-> {}, teardowns |-> 0,
              begun |-> FALSE, t |-> [i \in Threads |-> NewThread]]
NoNamespace == [NSMode |-> "", Value |-> <<>>]
NoNsCall == [fn |-> "none", input |-> <<>>, ns |-> NoNamespace, cniNetworks |-> <<>>,
             err |-> "nil", validated |-> FALSE, validateErr |-> "nil"]
NoRequest == [handler |-> "none", steps |-> <<>>, at |-> 1, returned |-> FALSE,
              responses |-> <<>>, tmp |-> "none", deferred |-> FALSE,
              image |-> FALSE, panicked |-> FALSE]
NoUnitCall == [fn |-> "none", restart |-> "", info |-> <<>>, err |-> "nil", text |-> <<>>]
ApiIdle ==
    /\ threads = NoThreads /\ nsCall = NoNsCall
    /\ request = NoRequest /\ unitCall = NoUnitCall
MoreIdle == ctx = NoCtx /\ PoolIdle /\ StoreIdle /\ ApiIdle
UnitsIdle == LockIdle /\ OCIIdle /\ LifeIdle /\ MoreIdle
BootIdle ==
    /\ proc = [p \in Procs |-> NewProc]
    /\ runtime = [p \in Procs |-> NewRuntime]
    /\ pass = [p \in Procs |-> NewPass]
    /\ stages = [p \in Procs |-> <<>>]
    /\ aliveLock = {}
    /\ aliveFile = FALSE
    /\ boot = NewBoot
RestIdle ==
    /\ BootIdle /\ LockIdle /\ OCIIdle /\ LifeIdle
    /\ state = [ctrs |-> <<>>, pods |-> <<>>, vols |-> <<>>]
    /\ user = "root"
    /\ ctx = NoCtx /\ PoolIdle /\ StoreIdle

Init ==
    /\ proc = [p \in Procs |-> NewProc]
    /\ runtime = [p \in Procs |-> NewRuntime]
    /\ pass = [p \in Procs |-> NewPass]
    /\ stages = [p \in Procs |-> <<>>]
    /\ aliveLock = {}
    /\ aliveFile = FALSE
    /\ \E n \in {0, MaxPerKind} :
          state = [ctrs |-> EntityList("ctr", n), pods |-> EntityList("pod", n),
                   vols |-> EntityList("vol", n)]
    /\ user \in {"root", "userns", "user"}
    /\ boot = NewBoot
    /\ UnitsIdle

----------------------------------------------------------------------------
\* Helpers shared by the steps of makeRuntime.

Passed(p, tag) == stages' = [stages EXCEPT ![p] = Append(@, tag)]

\* The deferred function of makeRuntime unlocks only a lock that is held:
\* "if aliveLock.Locked() { aliveLock.Unlock() }".
C8_UnguardedUnlock(locked) == TRUE
DeferredUnlockRuns(locked) == locked

\* newRuntimeFromConfig: what the caller receives when the configuration, an
\* option or makeRuntime ended with e: "return nil, err" or "return runtime, nil".
C13_HandleAnyway(e) == "runtime"
ReturnedRuntime(e) == IF e # "nil" THEN "nil" ELSE "runtime"

\* A return of the constructor with result e (the string "nil" for success),
\* its deferred functions included. Unlocking a lock file that this handle
\* does not hold panics, and a panic returns nothing.
Return(p, rec, e) ==
    LET runs == DeferredUnlockRuns(rec.locked)
        panic == runs /\ ~rec.locked
    IN  /\ proc' = [proc EXCEPT ![p] =
                      [rec EXCEPT !.pc = IF panic THEN "panicked" ELSE "returned",
                                  !.err = e,
                                  !.handle = IF panic THEN "nil" ELSE ReturnedRuntime(e),
                                  !.locked = IF runs THEN FALSE ELSE rec.locked]]
        /\ aliveLock' = IF runs /\ rec.locked THEN aliveLock \ {p} ELSE aliveLock

\* The statements of makeRuntime from the boot-lifetime lock on, in program
\* order: aliveLock.Lock(), os.Stat of the alive file, getLockManager,
\* renumberLocks, refresh, runtime.valid = true.
C9_LockManagerFirst == <<"lockmgr", "renumber", "lock", "stat", "refresh", "valid">>
C14_ValidBeforeRefresh == <<"lock", "stat", "lockmgr", "renumber", "valid", "refresh">>
MakeRuntimeOrder == <<"lock", "stat", "lockmgr", "renumber", "refresh", "valid">>

\* renumberLocks runs only "if runtime.doRenumber", refresh only "if doRefresh".
Skipped(step, doRenumber, doRefresh) ==
    \/ step = "renumber" /\ ~doRenumber
    \/ step = "refresh" /\ ~doRefresh

\* The statement that runs after step.
RECURSIVE StepAfter(_, _, _)
StepAfter(step, doRenumber, doRefresh) ==
    LET i == CHOOSE k \in 1..Len(MakeRuntimeOrder) : MakeRuntimeOrder[k] = step
        n == MakeRuntimeOrder[i + 1]
    IN  IF Skipped(n, doRenumber, doRefresh)
          THEN StepAfter(n, doRenumber, doRefresh)
          ELSE n

\* A successful step: the process moves on to the step named next.
Goto(p, rec, next) ==
    /\ proc' = [proc EXCEPT ![p] = [rec EXCEPT !.pc = next]]
    /\ aliveLock' = aliveLock

----------------------------------------------------------------------------
\* The steps of newRuntimeFromConfig and makeRuntime that come before the
\* boot-lifetime lock is taken, each named by the error tag of its failure:
\*   config      newRuntimeFromConfig: configuration and runtime options
\*   state       conmon, static directory, state store
\*   dbconfig    GetDBConfig, MergeDBConfig, ValidateDBConfig
\*   namespace   SetNamespace
\*   store       container store, eventer, tmp and events directories
\*   ociruntime  OCI runtimes and their default
\*   cni         per-boot directory and CNI plugin (skipped when rootless)
\*   alivelock   storage.GetLockfile(TmpDir/alive.lck)
C22_NamespaceFirst ==
    <<"config", "state", "namespace", "dbconfig", "store", "ociruntime", "cni", "alivelock">>
PreLockSteps ==
    <<"config", "state", "dbconfig", "namespace", "store", "ociruntime", "cni", "alivelock">>

\* Whether the first n steps include state.SetNamespace.
NamespaceSetBy(n) == \E i \in 1..n : PreLockSteps[i] = "namespace"

\* The stage a step completes, if any.
StageOf(step, isRootless) ==
    CASE step = "state" -> <<"StoreOpened">>
      [] step = "dbconfig" -> <<"ConfigMerged">>
      [] step = "cni" /\ ~isRootless -> <<"NetworkPluginReady">>
      [] OTHER -> <<>>

\* The stages passed by the first n steps.
RECURSIVE StagesPassed(_, _)
StagesPassed(n, isRootless) ==
    IF n = 0 THEN <<>>
    ELSE StagesPassed(n - 1, isRootless) \o StageOf(PreLockSteps[n], isRootless)

\* newRuntimeFromConfig and makeRuntime up to the lock file handle: the steps
\* run in order and the first failure returns its error. They touch nothing
\* that processes share.
Configure(p) ==
    /\ proc[p].pc = "new"
    /\ \E n \in 0..Len(PreLockSteps) :
          /\ stages' = [stages EXCEPT ![p] = StagesPassed(n, IsRootless)]
          /\ IF n = Len(PreLockSteps)
               THEN Goto(p, NewProc, MakeRuntimeOrder[1])
               ELSE Return(p, NewProc, PreLockSteps[n + 1])
          /\ runtime' = [runtime EXCEPT
                           ![p] = [NewRuntime EXCEPT !.namespaceSet = NamespaceSetBy(n)]]
    /\ pass' = [pass EXCEPT ![p] = NewPass]
    /\ UNCHANGED <<aliveFile, state, user, unitVars, boot>>

\* makeRuntime: aliveLock.Lock() blocks until no process holds the lock.
LockAlive(p) ==
    /\ proc[p].pc = "lock"
    /\ aliveLock = {}
    /\ aliveLock' = {p}
    /\ proc' = [proc EXCEPT ![p].pc = StepAfter("lock", runtime[p].doRenumber, proc[p].doRefresh),
                            ![p].locked = TRUE]
    /\ Passed(p, "AliveLocked")
    /\ UNCHANGED <<runtime, pass, aliveFile, state, user, unitVars, boot>>

\* os.Stat(TmpDir/alive): nil when the file exists, ENOENT when it does not,
\* or another error in either case.
StatOutcomes(exists) == IF exists THEN {"nil", "EACCES"} ELSE {"ENOENT", "EACCES"}

\* os.IsNotExist
C3_AnyErrorIsNotExist(e) == e # "nil"
C12_EveryErrorIsNotExist(e) == e # "nil"
IsNotExist(e) == e = "ENOENT"

\* makeRuntime: what a failed Stat of the alive file leads to: a refresh when
\* the file does not exist, an error return otherwise.
AfterStatErr(p, rec) ==
    IF IsNotExist(rec.statErr)
      THEN Goto(p, [rec EXCEPT !.doRefresh = TRUE], StepAfter("stat", runtime[p].doRenumber, TRUE))
      ELSE Return(p, rec, "alivefile-stat")

\* makeRuntime: the test for the alive file. A process whose euid is not 0
\* goes on to release the lock and re-exec in a user namespace.
CheckAlive(p) ==
    /\ proc[p].pc = "stat"
    /\ \E s \in StatOutcomes(aliveFile) :
          LET rec == [proc[p] EXCEPT !.statErr = s]
          IN  /\ boot' = [boot EXCEPT !.absentChecks = IF s = "ENOENT" THEN @ + 1 ELSE @]
              /\ CASE s = "nil" -> Goto(p, rec, StepAfter("stat", runtime[p].doRenumber, FALSE))
                   [] s # "nil" /\ ~Euid0 -> Goto(p, rec, "reexec")
                   [] OTHER -> AfterStatErr(p, rec)
    /\ Passed(p, "RebootCheck")
    /\ UNCHANGED <<runtime, pass, aliveFile, state, user, unitVars>>

\* makeRuntime, euid not 0: "aliveLock.Unlock() // Unlock to avoid deadlock as
\* BecomeRootInUserNS will reexec".
UnlockForReexec(p) ==
    /\ proc[p].pc = "reexec"
    /\ aliveLock' = IF proc[p].locked THEN aliveLock \ {p} ELSE aliveLock
    /\ proc' = [proc EXCEPT ![p].pc = IF proc[p].locked THEN "becomeroot" ELSE "panicked",
                            ![p].locked = FALSE]
    /\ UNCHANGED <<runtime, pass, stages, aliveFile, state, user, unitVars, boot>>

\* makeRuntime, euid not 0: the pause pid path and BecomeRootInUserNS, which
\* returns an error, re-execs (the process then exits with the child's
\* status, no deferred function runs) or reports that it did not re-exec.
BecomeRoot(p) ==
    /\ proc[p].pc = "becomeroot"
    /\ \E out \in {"pausepid", "becomeroot", "became", "not"} :
          CASE out = "became" -> Goto(p, proc[p], "exited")
            [] out = "not" -> AfterStatErr(p, proc[p])
            [] OTHER -> Return(p, proc[p], "becomeroot")
    /\ UNCHANGED <<runtime, pass, stages, aliveFile, state, user, unitVars, boot>>

\* getLockManager: the error it returns and whether it created or removed a
\* lock medium, from the configured lock type, the error of opening the
\* existing medium, runtime.doRenumber and the outcomes of os.Remove and of
\* creating a new manager.
LockTypes == {"file", "", "shm", "unknown"}
OpenErrs == {"nil", "ENOENT", "ERANGE", "EIO"}
\* "case errors.Cause(err) == syscall.ERANGE && runtime.doRenumber"
C11_MismatchAlone(openErr, doRenumber) == openErr = "ERANGE"
MismatchWithRenumber(openErr, doRenumber) == openErr = "ERANGE" /\ doRenumber

\* "case "", "shm":" of the switch on config.LockType.
C30_SHMByDefault(lockType) == lockType # "file"
SHMLockType(lockType) == lockType \in {"", "shm"}

\* The switch on config.StateType: the error it returns and whether it
\* asked for a state store (NewInMemoryState, NewBoltState) to be opened.
StateTypes == {"InMemory", "SQLite", "BoltDB", "invalid"}
openState(stateType, stateOK) ==
    CASE stateType = "InMemory" ->
           [err |-> IF stateOK THEN "nil" ELSE "newinmemorystate", opened |-> TRUE]
      [] stateType = "SQLite" -> [err |-> "ErrInvalidArg", opened |-> FALSE]
      [] stateType = "BoltDB" ->
           [err |-> IF stateOK THEN "nil" ELSE "newboltstate", opened |-> TRUE]
      [] OTHER -> [err |-> "ErrInvalidArg", opened |-> FALSE]

getLockManager(lockType, openErr, doRenumber, removeOK, newOK) ==
    LET made(e) == [err |-> IF newOK THEN "nil" ELSE e, created |-> newOK]
    IN  CASE lockType = "file" ->
               IF openErr = "nil" THEN [err |-> "nil", created |-> FALSE, removed |-> FALSE]
               ELSE IF IsNotExist(openErr)
                 THEN made("newfilelockmanager") @@ [removed |-> FALSE]
                 ELSE [err |-> openErr, created |-> FALSE, removed |-> FALSE]
          [] lockType # "file" /\ SHMLockType(lockType) ->
               CASE openErr = "nil" -> [err |-> "nil", created |-> FALSE, removed |-> FALSE]
                 [] openErr # "nil" /\ IsNotExist(openErr) ->
                      made("newshmlockmanager") @@ [removed |-> FALSE]
                 [] openErr # "nil" /\ ~IsNotExist(openErr)
                      /\ MismatchWithRenumber(openErr, doRenumber) ->
                      IF removeOK
                        THEN made("newshmlockmanager") @@ [removed |-> TRUE]
                        ELSE [err |-> "removelocks", created |-> FALSE, removed |-> FALSE]
                 [] OTHER -> [err |-> openErr, created |-> FALSE, removed |-> FALSE]
          [] OTHER -> [err |-> "ErrInvalidArg", created |-> FALSE, removed |-> FALSE]

\* makeRuntime: runtime.lockManager, err = getLockManager(runtime).
\* runtime.doRenumber, set by a runtime option, is first read here.
GetLockManager(p) ==
    /\ proc[p].pc = "lockmgr"
    /\ \E doRenumber \in BOOLEAN :
       \E e \in { getLockManager(lockType, openErr, doRenumber, removeOK, newOK).err :
                     lockType \in LockTypes, openErr \in OpenErrs,
                     removeOK \in BOOLEAN, newOK \in BOOLEAN } :
              /\ runtime' = [runtime EXCEPT ![p].doRenumber = doRenumber]
              /\ IF e = "nil"
                   THEN /\ Goto(p, proc[p], StepAfter("lockmgr", doRenumber, proc[p].doRefresh))
                        /\ Passed(p, "LockManagerReady")
                   ELSE Return(p, proc[p], "lockmanager") /\ UNCHANGED stages
    /\ UNCHANGED <<pass, aliveFile, state, user, unitVars, boot>>

\* makeRuntime: "if runtime.doRenumber { runtime.renumberLocks() }".
Renumber(p) ==
    /\ proc[p].pc = "renumber"
    /\ \E ok \in BOOLEAN :
          IF ok
            THEN /\ Goto(p, proc[p], StepAfter("renumber", TRUE, proc[p].doRefresh))
                 /\ Passed(p, "Renumbered")
            ELSE Return(p, proc[p], "renumber") /\ UNCHANGED stages
    /\ UNCHANGED <<runtime, pass, aliveFile, state, user, unitVars, boot>>

\* Runtime.refresh: the order in which the entities are refreshed.
C4_ContainersTwice(st) == st.ctrs \o st.ctrs \o st.pods \o st.vols
C5_SkipVolumes(st) == st.ctrs \o st.pods
RefreshOrder(st) == st.ctrs \o st.pods \o st.vols

\* makeRuntime and Runtime.refresh: the store is configured when there is
\* none yet, the state is refreshed and its containers, pods and volumes are
\* listed.
\* Runtime.refresh: the errors of state.Refresh, AllContainers, AllPods and
\* AllVolumes, each of which is returned at once.
ListingErrs == {"staterefresh", "allcontainers", "allpods", "allvolumes"}
C35_OnlyLogged(e) == FALSE
ListingFailureFatal(e) == e # "nil"

BeginRefresh(p) ==
    /\ proc[p].pc = "refresh"
    /\ \E e \in {"nil", "configurestore"} \cup ListingErrs :
          IF ~ListingFailureFatal(e)
            THEN /\ Goto(p, proc[p], "refresh_loop")
                 /\ pass' = [pass EXCEPT ![p].todo = RefreshOrder(state),
                                         ![p].listErr = e \in ListingErrs]
                 /\ Passed(p, "Refreshing")
            ELSE /\ Return(p, proc[p], "refresh")
                 /\ pass' = [pass EXCEPT ![p].listErr = e \in ListingErrs]
                 /\ UNCHANGED stages
    /\ UNCHANGED <<runtime, aliveFile, state, user, unitVars, boot>>

\* Runtime.refresh: an entity's refresh error is logged, never returned.
C6_AbortOnError(ok) == ~ok
EntityRefreshFatal(ok) == FALSE

\* Runtime.refresh takes no context: "func (r *Runtime) refresh(alivePath
\* string) error". A cancelled context ends neither its loops nor the
\* creation of the alive file.
C23_StopOnCancel(done) == done
Interrupted(done) == FALSE

\* Runtime.refresh: one iteration of the loops over containers, pods and
\* volumes.
RefreshEntity(p) ==
    /\ proc[p].pc = "refresh_loop"
    /\ pass[p].todo # <<>>
    /\ LET e == Head(pass[p].todo)
       IN  \E ok \in BOOLEAN :
             /\ pass' = [pass EXCEPT ![p].todo = Tail(@),
                                     ![p].invoked[e] = @ + 1,
                                     ![p].logged = @ \/ ~ok]
             /\ boot' = [boot EXCEPT !.refreshCount[e] = @ + 1]
             /\ IF EntityRefreshFatal(ok)
                  THEN Return(p, proc[p], "entityrefresh")
                  ELSE IF Interrupted(ctx.done)
                    THEN Return(p, proc[p], "cancelled")
                    ELSE Goto(p, proc[p], "refresh_loop")
    /\ UNCHANGED <<runtime, stages, aliveFile, state, user, unitVars>>

\* Runtime.refresh: after the loops the alive file is created.
CreateAlive(p) ==
    /\ proc[p].pc = "refresh_loop"
    /\ pass[p].todo = <<>>
    /\ \E ok \in BOOLEAN :
          IF Interrupted(ctx.done)
            THEN Return(p, proc[p], "cancelled") /\ aliveFile' = aliveFile
          ELSE IF ok
            THEN Goto(p, proc[p], StepAfter("refresh", runtime[p].doRenumber, TRUE)) /\ aliveFile' = TRUE
            ELSE Return(p, proc[p], "alivefile-create") /\ aliveFile' = aliveFile
    /\ UNCHANGED <<runtime, pass, stages, state, user, unitVars, boot>>

\* makeRuntime: the runtime is marked valid, migrated when asked to, and the
\* constructor returns. The migration is the one step that is given the
\* context ("runtime.migrate(ctx)"); its failure, whatever the reason, is
\* the error returned.
MarkValid(p) ==
    /\ proc[p].pc = "valid"
    /\ runtime' = [runtime EXCEPT ![p].valid = TRUE]
    /\ Passed(p, "Valid")
    /\ \E doMigrate \in BOOLEAN, migrateOK \in BOOLEAN :
          LET e == IF doMigrate /\ ~migrateOK THEN "migrate" ELSE "nil"
          IN  Return(p, proc[p], e)
    /\ UNCHANGED <<pass, aliveFile, state, user, unitVars, boot>>

\* A host reboot ends every process and clears the tmp directory; the state
\* store persists.
Reboot ==
    /\ \E p \in Procs : proc[p].pc # "new"
    /\ proc' = [p \in Procs |-> NewProc]
    /\ runtime' = [p \in Procs |-> NewRuntime]
    /\ pass' = [p \in Procs |-> NewPass]
    /\ stages' = [p \in Procs |-> <<>>]
    /\ aliveLock' = {}
    /\ aliveFile' = FALSE
    /\ boot' = NewBoot
    /\ UNCHANGED <<state, user, unitVars>>

Next ==
    \/ \E p \in Procs :
          \/ Configure(p)
          \/ LockAlive(p)
          \/ CheckAlive(p)
          \/ UnlockForReexec(p)
          \/ BecomeRoot(p)
          \/ GetLockManager(p)
          \/ Renumber(p)
          \/ BeginRefresh(p)
          \/ RefreshEntity(p)
          \/ CreateAlive(p)
          \/ MarkValid(p)
    \/ Reboot

Spec == Init /\ [][Next]_vars

----------------------------------------------------------------------------
\* Vocabulary of the properties.

\* The process is inside the loops of Runtime.refresh or about to create the
\* alive file.
InRefresh(p) == proc[p].pc = "refresh_loop"
HasPassed(p, stage) == \E i \in 1..Len(stages[p]) : stages[p][i] = stage
Returned(p) == proc[p].pc = "returned"
Succeeded(p) == Returned(p) /\ proc[p].err = "nil"
NothingInvoked(p) == \A e \in Entities : pass[p].invoked[e] = 0
AllInvokedOnce(p) ==
    \A e \in Entities : pass[p].invoked[e] = IF e \in StateEntities THEN 1 ELSE 0

\* C1: at most one process is executing the refresh pass at any time.
C1_OneRefreshAtATime == Cardinality({p \in Procs : InRefresh(p)}) <= 1

\* C2: a process executing the refresh pass holds the boot-lifetime lock.
C2_RefreshHoldsAliveLock == \A p \in Procs : InRefresh(p) => p \in aliveLock /\ proc[p].locked

\* C3 as stated: a bootstrap runs the refresh pass if and only if its check
\* found the alive marker absent; with the marker present nothing is
\* refreshed; with any other Stat error bootstrap fails and refreshes nothing.
C3_RefreshIffMarkerAbsent ==
    \A p \in Procs :
       /\ Returned(p) /\ proc[p].statErr # "none" =>
             (HasPassed(p, "Refreshing") <=> proc[p].statErr = "ENOENT")
       /\ proc[p].statErr = "nil" => NothingInvoked(p)
       /\ proc[p].statErr = "EACCES" => NothingInvoked(p) /\ ~Succeeded(p)

\* C3 as amended: the refresh pass runs only if the check found the marker
\* absent, and it does run then unless the rootless re-exec, the lock manager,
\* the renumber or the listing of the state fails first; with the marker
\* present nothing is refreshed; with any other Stat error nothing is
\* refreshed and bootstrap never succeeds.
C3_RefreshOnlyIfMarkerAbsent ==
    \A p \in Procs :
       /\ HasPassed(p, "Refreshing") => proc[p].statErr = "ENOENT"
       /\ Returned(p) /\ proc[p].statErr = "ENOENT"
            /\ proc[p].err \notin {"becomeroot", "lockmanager", "renumber", "refresh"}
            => HasPassed(p, "Refreshing") /\ AllInvokedOnce(p)
       /\ proc[p].statErr = "nil" => NothingInvoked(p)
       /\ proc[p].statErr = "EACCES" => NothingInvoked(p) /\ ~Succeeded(p) /\ ~runtime[p].valid

C3_Witness ==
    \E p \in Procs : /\ Succeeded(p) /\ proc[p].statErr = "ENOENT"
                     /\ StateEntities # {} /\ AllInvokedOnce(p)

\* C4 as stated: within one boot cycle no entity has its refresh invoked more
\* than once.
C4_NoEntityRefreshedTwice == \A e \in Entities : boot.refreshCount[e] <= 1

\* C4 as amended: within one boot cycle each bootstrap invokes an entity's
\* refresh at most once and only after its check found the alive marker
\* absent, so an entity is never refreshed more often than the marker was
\* found absent.
C4_RefreshedOncePerAbsentCheck ==
    /\ \A e \in Entities : boot.refreshCount[e] <= boot.absentChecks
    /\ \A p \in Procs : \A e \in Entities :
          /\ pass[p].invoked[e] <= 1
          /\ pass[p].invoked[e] = 1 => proc[p].statErr = "ENOENT"

C4_Witness ==
    /\ \E e \in Entities : boot.refreshCount[e] = 2
    /\ \E p \in Procs : proc[p].err = "alivefile-create"

\* C5: a bootstrap that finds no alive marker and succeeds has invoked refresh
\* exactly once on every container, pod and volume of the state and leaves the
\* marker present; no bootstrap that checks the marker after that finds it
\* absent, and one that does not find it absent refreshes nothing.
C5_RefreshAllThenNone ==
    /\ [](\A p \in Procs :
            /\ Succeeded(p) /\ proc[p].doRefresh => AllInvokedOnce(p) /\ aliveFile
            /\ ~proc[p].doRefresh => NothingInvoked(p))
    /\ [][\A q \in Procs :
            /\ \E p \in Procs : Succeeded(p) /\ proc[p].doRefresh
            /\ proc[q].statErr = "none" /\ proc'[q].statErr # "none"
            => ~proc'[q].doRefresh /\ proc'[q].statErr # "ENOENT"]_vars

C5_Witness ==
    \E p, q \in Procs :
       /\ Succeeded(p) /\ proc[p].doRefresh /\ AllInvokedOnce(p) /\ StateEntities # {}
       /\ Succeeded(q) /\ proc[q].statErr = "nil" /\ NothingInvoked(q)

\* C6: a failed refresh of an entity is only logged: every entity of the state
\* is still refreshed, the alive marker is still created and bootstrap
\* returns no error on its account.
C6_EntityFailureOnlyLogged ==
    \A p \in Procs :
       pass[p].logged =>
          /\ ~InRefresh(p) => AllInvokedOnce(p)
          /\ proc[p].err \in {"nil", "alivefile-create", "migrate"}
          /\ proc[p].err # "alivefile-create" /\ ~InRefresh(p) => aliveFile

C6_Witness ==
    \E p \in Procs :
       /\ Succeeded(p) /\ aliveFile /\ AllInvokedOnce(p)
       /\ pass[p].logged /\ Cardinality(StateEntities) > 1

\* C7: the alive marker is never present while an entity of a running refresh
\* pass is still unrefreshed.
C7_MarkerOnlyAfterAllRefreshed ==
    \A p \in Procs : InRefresh(p) /\ pass[p].todo # <<>> => ~aliveFile

\* C8: once bootstrap has returned, or the process has exited, after the
\* boot-lifetime lock was acquired, the process does not hold the lock, and no
\* process ever unlocks a lock it does not hold.
C8_LockReleasedOnEveryExit ==
    \A p \in Procs :
       /\ proc[p].pc # "panicked"
       /\ proc[p].pc \in {"returned", "exited"} => p \notin aliveLock /\ ~proc[p].locked
       /\ proc[p].locked <=> p \in aliveLock

C8_Witness ==
    Euid0 /\ \E p \in Procs :
       /\ Returned(p) /\ proc[p].err \in {"lockmanager", "renumber", "refresh", "alivefile-create"}
       /\ HasPassed(p, "AliveLocked") /\ aliveLock = {}

\* The stages of a bootstrap in the order the specification gives and in the
\* order of the code.
ClaimedStageOrder == <<"StoreOpened", "ConfigMerged", "LockManagerReady", "Renumbered",
                       "NetworkPluginReady", "AliveLocked", "RebootCheck", "Refreshing",
                       "Valid">>
CodeStageOrder == <<"StoreOpened", "ConfigMerged", "NetworkPluginReady", "AliveLocked",
                    "RebootCheck", "LockManagerReady", "Renumbered", "Refreshing", "Valid">>
Rank(order, stage) == CHOOSE k \in 1..Len(order) : order[k] = stage
InOrder(passed, order) ==
    \A i \in 1..Len(passed) - 1 : Rank(order, passed[i]) < Rank(order, passed[i + 1])

\* C9 as stated: every bootstrap passes its stages in the order state store
\* and configuration, Lock Manager (and renumber), network plugin, reboot
\* check under the boot-lifetime lock, refresh, valid.
C9_StagesInClaimedOrder == \A p \in Procs : InOrder(stages[p], ClaimedStageOrder)

\* C9 as amended: every bootstrap passes its stages in the order state store
\* and configuration, network plugin, reboot check under the boot-lifetime
\* lock, Lock Manager (and renumber), refresh, valid; a valid runtime has
\* passed the state store, the reboot check and the Lock Manager.
C9_StagesInCodeOrder ==
    \A p \in Procs :
       /\ InOrder(stages[p], CodeStageOrder)
       /\ runtime[p].valid =>
             \A st \in {"StoreOpened", "ConfigMerged", "AliveLocked", "RebootCheck",
                        "LockManagerReady", "Valid"} : HasPassed(p, st)
       /\ HasPassed(p, "LockManagerReady") => HasPassed(p, "RebootCheck")

C9_Witness ==
    \E p \in Procs :
       /\ Succeeded(p)
       /\ stages[p] = CodeStageOrder

\* C10: a runtime that is valid after a renumber has completed a refresh pass
\* after that renumber.
C10_RenumberThenRefreshBeforeValid ==
    \A p \in Procs :
       runtime[p].valid /\ HasPassed(p, "Renumbered") => HasPassed(p, "Refreshing")

----------------------------------------------------------------------------
\* getLockManager on the lock media of a host. Each call is that of one
\* bootstrap (makeRuntime: "runtime.lockManager, err = getLockManager(runtime);
\* if err != nil { return err }"), with the lock type, NumLocks and doRenumber
\* of its configuration.

\* lock.OpenFileLockManager and lock.OpenSHMLockManager: the error of opening
\* the medium. A medium that does not exist gives ENOENT, a shared memory
\* segment created with another number of locks gives ERANGE ("ERANGE
\* indicates a lock numbering mismatch"), and any open can fail otherwise.
OpenOutcomes(lockType, medium, numLocks) ==
    CASE lockType = "file" -> IF medium.file THEN {"nil", "EIO"} ELSE {"ENOENT", "EIO"}
      [] lockType # "file" /\ SHMLockType(lockType) ->
           IF medium.shm = 0 THEN {"ENOENT", "EIO"}
           ELSE IF medium.shm = numLocks THEN {"nil", "EIO"} ELSE {"ERANGE", "EIO"}
      [] OTHER -> {"nil"}

\* Whether getLockManager asks the lock package to open a medium.
OpensMedium(lockType) == lockType = "file" \/ SHMLockType(lockType)

\* The media after a call: os.Remove deletes the segment, NewFileLockManager
\* and NewSHMLockManager create the medium with the configured NumLocks.
MediumAfter(medium, lockType, numLocks, res) ==
    IF lockType = "file"
      THEN [medium EXCEPT !.file = @ \/ res.created]
      ELSE [medium EXCEPT !.shm = IF res.created THEN numLocks
                                  ELSE IF res.removed THEN 0 ELSE @]

LockInit ==
    /\ BootIdle /\ OCIIdle /\ LifeIdle /\ MoreIdle
    /\ state = [ctrs |-> <<>>, pods |-> <<>>, vols |-> <<>>]
    /\ user = "root"
    /\ lockMedium \in [file : BOOLEAN, shm : 0..MaxLocks]
    /\ lockCall = NoLockCall

\* One bootstrap reaches getLockManager. When it fails makeRuntime returns its
\* error; when it succeeds the rest of the bootstrap decides what is returned.
CallGetLockManager ==
    \E lockType \in LockTypes, numLocks \in 1..MaxLocks, doRenumber \in BOOLEAN,
       removeOK \in BOOLEAN, newOK \in BOOLEAN, rest \in {"nil", "refresh"},
       stateType \in StateTypes :
       \E openErr \in OpenOutcomes(lockType, lockMedium, numLocks) :
          LET res == getLockManager(lockType, openErr, doRenumber, removeOK, newOK)
              st == openState(stateType, TRUE)
          IN  /\ st.err = "nil"
              /\ lockMedium' = MediumAfter(lockMedium, lockType, numLocks, res)
              /\ lockCall' = [lockType |-> lockType, numLocks |-> numLocks,
                              doRenumber |-> doRenumber, openErr |-> openErr,
                              before |-> lockMedium, err |-> res.err,
                              created |-> res.created, removed |-> res.removed,
                              handle |-> ReturnedRuntime(IF res.err # "nil" THEN res.err
                                                         ELSE rest),
                              opened |-> OpensMedium(lockType),
                              stateType |-> stateType, stateOpened |-> st.opened]
              /\ UNCHANGED <<bootVars, ociConfig, ociResult, life, ctrRunning, call, moreVars>>

\* One bootstrap fails in the switch on config.StateType: makeRuntime returns
\* the error and never reaches getLockManager.
FailOpenState ==
    \E stateType \in StateTypes, stateOK \in BOOLEAN :
       LET st == openState(stateType, stateOK)
       IN  /\ st.err # "nil"
           /\ lockCall' = [NoLockCall EXCEPT !.before = lockMedium, !.err = st.err,
                                             !.handle = ReturnedRuntime(st.err),
                                             !.stateType = stateType,
                                             !.stateOpened = st.opened]
           /\ UNCHANGED <<bootVars, lockMedium, ociConfig, ociResult, life, ctrRunning, call, moreVars>>

LockNext == CallGetLockManager \/ FailOpenState
SpecLock == LockInit /\ [][LockNext]_vars

\* The last call found a shared memory segment of another size than the
\* configured NumLocks.
ShmMismatch ==
    /\ lockCall.lockType \in {"", "shm"}
    /\ lockCall.openErr = "ERANGE"
    /\ lockCall.before.shm \notin {0, lockCall.numLocks}

\* C11 as stated: on a size mismatch of the shm backend, a requested renumber
\* removes the old medium and creates a pool of the configured size; without
\* the request bootstrap fails with the mismatch error, the medium is left
\* untouched and no Runtime is produced.
C11_MismatchRenumbersOrFails ==
    ShmMismatch =>
       IF lockCall.doRenumber
         THEN lockCall.removed /\ lockCall.created /\ lockMedium.shm = lockCall.numLocks
         ELSE /\ lockCall.err = "ERANGE" /\ lockCall.handle = "nil"
              /\ lockMedium = lockCall.before

\* C11 as amended: with the renumber requested the old medium is removed and
\* a pool of the configured size created unless removing or creating fails:
\* then bootstrap fails and produces no Runtime, with the old medium
\* untouched when the removal failed and gone, with no pool in its place,
\* when the creation failed. Without the request: as stated.
C11_MismatchRenumbersUnlessIOFails ==
    ShmMismatch =>
       IF lockCall.doRenumber
         THEN /\ lockCall.err = "nil" =>
                    lockCall.removed /\ lockCall.created /\ lockMedium.shm = lockCall.numLocks
              /\ lockCall.err # "nil" =>
                    /\ lockCall.handle = "nil" /\ ~lockCall.created
                    /\ lockMedium.shm = IF lockCall.removed THEN 0 ELSE lockCall.before.shm
              /\ lockMedium.file = lockCall.before.file
         ELSE /\ lockCall.err = "ERANGE" /\ lockCall.handle = "nil"
              /\ ~lockCall.created /\ ~lockCall.removed
              /\ lockMedium = lockCall.before

C11_Witness ==
    /\ ShmMismatch /\ lockCall.doRenumber /\ lockCall.err = "nil"
    /\ lockMedium.shm = lockCall.numLocks /\ lockCall.before.shm # lockCall.numLocks

\* C12: getLockManager creates a medium only when the open failed because the
\* medium does not exist or, for the shm backend, on a size mismatch with the
\* renumber requested, and removes one only in the latter case; any other
\* open failure is returned as the error and nothing is created or removed.
C12_CreatesOnlyIfAbsentOrRenumber ==
    LET absent == lockCall.openErr = "ENOENT"
        renumber == /\ lockCall.lockType \in {"", "shm"} /\ lockCall.doRenumber
                    /\ lockCall.openErr = "ERANGE"
    IN  lockCall.lockType # "none" =>
        /\ lockCall.created => absent \/ renumber
        /\ lockCall.removed => renumber
        /\ lockMedium # lockCall.before => lockCall.created \/ lockCall.removed
        /\ lockCall.openErr # "nil" /\ ~absent /\ ~renumber =>
              /\ lockCall.err = lockCall.openErr /\ lockCall.handle = "nil"
              /\ ~lockCall.created /\ ~lockCall.removed
              /\ lockMedium = lockCall.before

C12_Witness ==
    /\ lockCall.openErr = "EIO" /\ lockCall.err = "EIO"
    /\ lockCall.before.shm # 0 /\ lockMedium = lockCall.before

----------------------------------------------------------------------------
\* The life of one Runtime object: newRuntimeFromConfig, then the calls its
\* holder makes on it. Runtime.lock is held for the whole of Shutdown and of
\* GetConfig, so no call begins while a Shutdown is under way.

\* The steps of a bootstrap in program order; migrate runs after the runtime
\* was marked valid.
BootstrapSteps == PreLockSteps \o MakeRuntimeOrder \o <<"migrate">>
StepPos(step) == CHOOSE i \in 1..Len(BootstrapSteps) : BootstrapSteps[i] = step

\* "if !r.valid { return ..., define.ErrRuntimeStopped }" of Shutdown and
\* GetConfig.
C18_NeverStopped(valid) == FALSE
RuntimeStopped(valid) == ~valid

\* DeferredShutdown: "_ = r.Shutdown(force)"; the methods without an error
\* result return none either.
Exposed(op, e) == IF op = "DeferredShutdown" THEN "none" ELSE e

\* store.Shutdown(force) of containers/storage: without force it refuses
\* while a layer is mounted, as the layers of running containers are; any
\* shutdown can fail otherwise.
StoreShutdownErrs(force, running) ==
    IF ~force /\ running # {} THEN {"ErrLayerUsedByContainer"} ELSE {"nil", "EBUSY"}

\* The loop of Shutdown over the listed containers logs a failed
\* StopWithTimeout and goes on with the next container.
C33_AbortOnFailure(todo, ok) == IF ok THEN Tail(todo) ELSE <<>>
RemainingAfterStop(todo, ok) == Tail(todo)

\* r.state.Close() follows r.store.Shutdown whatever that returned: its error
\* is kept in lastError, nothing returns between the two.
C34_ReturnOnStoreError(storeErr) == storeErr = "nil"
ClosesStateAfter(storeErr) == TRUE

\* Shutdown closes the store and the state after the loop over the
\* containers.
C17_CloseAnytime(todo) == TRUE
CloseAllowed(todo) == todo = <<>>

LifeInit ==
    /\ BootIdle /\ LockIdle /\ OCIIdle /\ MoreIdle
    /\ \E n \in {0, MaxPerKind}, m \in 0..ShutdownCtrs :
          state = [ctrs |-> EntityList("ctr", m), pods |-> EntityList("pod", n),
                   vols |-> EntityList("vol", n)]
    /\ user \in {"root", "userns", "user"}
    /\ life = NewLife
    /\ ctrRunning \in SUBSET Range(state.ctrs)
    /\ call = NoCall

\* newRuntimeFromConfig as a whole: the steps run in order up to the first
\* that fails. The container store is configured before the lock unless
\* euid is not 0 or the runtime was built with the noStore option, and by a
\* refresh when there is none yet. The holder gets the Runtime only when no
\* step failed.
LifeBootstrap ==
    /\ life.pc = "new"
    /\ \E noStore \in BOOLEAN, doRenumber \in BOOLEAN, doRefresh \in BOOLEAN,
          doMigrate \in BOOLEAN, f \in Range(BootstrapSteps) \cup {"none"} :
          LET skipped(step) == \/ Skipped(step, doRenumber, doRefresh)
                               \/ step = "migrate" /\ ~doMigrate
                               \/ step = "cni" /\ IsRootless
              ran(step) == ~skipped(step) /\ (f = "none" \/ StepPos(step) < StepPos(f))
              e == IF f = "none" THEN "nil" ELSE f
          IN  /\ f \notin {"lock", "valid"}
              /\ f # "none" => ~skipped(f)
              /\ life' = [life EXCEPT
                     !.pc = IF ReturnedRuntime(e) = "nil" THEN "failed" ELSE "ready",
                     !.valid = ran("valid"),
                     !.failed = f,
                     !.store = IF (ran("store") /\ Euid0 /\ ~noStore) \/ ran("refresh")
                               THEN "open" ELSE "nil"]
    /\ UNCHANGED <<bootVars, lockMedium, lockCall, ociConfig, ociResult, ctrRunning, call, moreVars>>

\* Shutdown and DeferredShutdown up to the list of the containers: the
\* validity check, "r.valid = false" and, with force, r.state.AllContainers(),
\* whose error is logged.
ShutdownBegin ==
    /\ life.pc = "ready"
    /\ \E force \in BOOLEAN, deferred \in BOOLEAN :
          IF RuntimeStopped(life.valid)
            THEN /\ call' = [op |-> IF deferred THEN "DeferredShutdown" ELSE "Shutdown",
                             after |-> life.shut, force |-> force,
                             err |-> Exposed(IF deferred THEN "DeferredShutdown" ELSE "Shutdown",
                                             "ErrRuntimeStopped"),
                             attempted |-> FALSE]
                 /\ life' = life
            ELSE /\ \E listOK \in BOOLEAN :
                       life' = [life EXCEPT
                          !.pc = "shutdown", !.valid = FALSE, !.shut = TRUE,
                          !.force = force, !.deferred = deferred, !.storeErr = "nil",
                          !.listed = IF ~force THEN "none" ELSE IF listOK THEN "ok" ELSE "error",
                          !.todo = IF force /\ listOK THEN state.ctrs ELSE <<>>]
                 /\ call' = call
    /\ UNCHANGED <<bootVars, lockMedium, lockCall, ociConfig, ociResult, ctrRunning, moreVars>>

\* Shutdown with force: ctr.StopWithTimeout of one container; a failure is
\* logged.
StopContainer ==
    /\ life.pc = "shutdown"
    /\ life.todo # <<>>
    /\ LET c == Head(life.todo)
       IN  \E ok \in BOOLEAN :
             /\ ctrRunning' = IF ok THEN ctrRunning \ {c} ELSE ctrRunning
             /\ life' = [life EXCEPT !.todo = RemainingAfterStop(@, ok),
                                      !.stops[c] = @ + 1,
                                      !.stopErrs = IF ok THEN @ ELSE @ \cup {c}]
    /\ UNCHANGED <<bootVars, lockMedium, lockCall, ociConfig, ociResult, call, moreVars>>

\* Shutdown: r.store.Shutdown(force) when there is a store.
ShutdownStore ==
    /\ life.pc = "shutdown"
    /\ CloseAllowed(life.todo)
    /\ IF life.store # "nil"
         THEN \E e \in StoreShutdownErrs(life.force, ctrRunning) :
                 LET op == IF life.deferred THEN "DeferredShutdown" ELSE "Shutdown"
                 IN  /\ life' = [life EXCEPT
                            !.pc = IF ClosesStateAfter(e) THEN "closing" ELSE "ready",
                            !.store = "shutdown",
                            !.storeShutdowns = @ + 1, !.storeErr = e]
                     /\ call' = IF ClosesStateAfter(e) THEN call
                                ELSE [op |-> op, after |-> FALSE, force |-> life.force,
                                      err |-> Exposed(op, e), attempted |-> TRUE]
         ELSE life' = [life EXCEPT !.pc = "closing"] /\ call' = call
    /\ UNCHANGED <<bootVars, lockMedium, lockCall, ociConfig, ociResult, ctrRunning, moreVars>>

\* Shutdown: r.state.Close() and the return of the last error.
ShutdownClose ==
    /\ life.pc = "closing"
    /\ \E closeErr \in {"nil", "stateclose"} :
          LET op == IF life.deferred THEN "DeferredShutdown" ELSE "Shutdown"
              lastError == IF closeErr # "nil" THEN closeErr ELSE life.storeErr
          IN  /\ life' = [life EXCEPT !.pc = "ready", !.stateCloses = @ + 1]
              /\ call' = [op |-> op, after |-> FALSE, force |-> life.force,
                          err |-> Exposed(op, lastError), attempted |-> TRUE]
    /\ UNCHANGED <<bootVars, lockMedium, lockCall, ociConfig, ociResult, ctrRunning, moreVars>>

\* GetConfig: the validity check, then a copy of the configuration.
GetConfig ==
    /\ life.pc = "ready"
    /\ IF RuntimeStopped(life.valid)
         THEN call' = [op |-> "GetConfig", after |-> life.shut, force |-> FALSE,
                       err |-> "ErrRuntimeStopped", attempted |-> FALSE]
         ELSE \E e \in {"nil", "copy"} :
                 call' = [op |-> "GetConfig", after |-> life.shut, force |-> FALSE,
                          err |-> e, attempted |-> TRUE]
    /\ UNCHANGED <<bootVars, lockMedium, lockCall, ociConfig, ociResult, life, ctrRunning, moreVars>>

\* Info: host, store and registries information, gathered without a look at
\* r.valid.
Info ==
    /\ life.pc = "ready"
    /\ \E e \in {"nil", "hostinfo", "storeinfo", "registries"} :
          call' = [op |-> "Info", after |-> life.shut, force |-> FALSE,
                   err |-> e, attempted |-> TRUE]
    /\ UNCHANGED <<bootVars, lockMedium, lockCall, ociConfig, ociResult, life, ctrRunning, moreVars>>

\* ImageRuntime, SystemContext and GetOCIRuntimePath return a field of the
\* Runtime and have no error result.
Getter ==
    /\ life.pc = "ready"
    /\ \E op \in {"ImageRuntime", "SystemContext", "GetOCIRuntimePath"} :
          call' = [op |-> op, after |-> life.shut, force |-> FALSE,
                   err |-> "none", attempted |-> TRUE]
    /\ UNCHANGED <<bootVars, lockMedium, lockCall, ociConfig, ociResult, life, ctrRunning, moreVars>>

LifeNext ==
    \/ LifeBootstrap
    \/ ShutdownBegin
    \/ StopContainer
    \/ ShutdownStore
    \/ ShutdownClose
    \/ GetConfig
    \/ Info
    \/ Getter

SpecLife == LifeInit /\ [][LifeNext]_vars

----------------------------------------------------------------------------
\* The OCI runtime registry that makeRuntime builds from the configuration:
\* runtime_path (config.RuntimePath, the legacy list of paths of one runtime),
\* runtimes (config.OCIRuntimes, a table from names to paths) and runtime
\* (config.OCIRuntime, a name of the table or the path of an executable).
\* A path is the sequence of its components; an OCIRuntime value records
\* whether it starts with "/".

\* The runtimes and paths of the configurations explored.
RuntimeNames == {"runc", "crun"}
RuncPath == <<"usr", "bin", "runc">>
CrunPath == <<"usr", "local", "bin", "crun">>

\* filepath.Base
Base(path) == path[Len(path)]

\* An OCIRuntime object, told apart by its name and by the setting that
\* newConmonOCIRuntime built it from.
OCIRuntimeOf(name, site) == [name |-> name, site |-> site]

\* "runtime.ociRuntimes[name] = ociRuntime"
Put(m, name, o) == [n \in DOMAIN m \cup {name} |-> IF n = name THEN o ELSE m[n]]

\* "if len(runtime.ociRuntimes) == 0" and "if runtime.defaultOCIRuntime == nil"
NoEntries(m) == DOMAIN m = {}
C19_DefaultOptional(d) == FALSE
DefaultMissing(d) == d = NoRuntime

\* The loop over config.OCIRuntimes: "Don't fatally error", an entry that
\* fails to initialise is logged and skipped with "continue".
C21_AnyFailureFatal(failed) == failed # {}
TableFailureFatal(failed) == FALSE

\* makeRuntime, "Get us at least one working OCI runtime" to "Do we have a
\* default runtime?": the registry, the default and the error, with the
\* place of the return. legacyOK, tableOK and namedOK tell which calls of
\* newConmonOCIRuntime succeed.
makeOCIRuntimes(cfg, legacyOK, tableOK, namedOK) ==
    LET fail(r, e, at) == [r EXCEPT !.err = e, !.at = at]
        r0 == [err |-> "nil", at |-> "done", ociRuntimes |-> [n \in {} |-> NoRuntime],
               defaultOCIRuntime |-> NoRuntime]
        \* Is the old runtime_path defined?
        r1 == IF cfg.RuntimePath.isNil THEN r0
              ELSE IF Len(cfg.RuntimePath.list) = 0
                THEN fail(r0, "ErrInvalidArg", "runtime_path")
              ELSE IF ~legacyOK THEN fail(r0, "newconmon", "runtime_path")
              ELSE LET name == Base(cfg.RuntimePath.list[1])
                       o == OCIRuntimeOf(name, "runtime_path")
                   IN  [r0 EXCEPT !.ociRuntimes = Put(@, name, o), !.defaultOCIRuntime = o]
        \* Initialize remaining OCI runtimes
        made == cfg.OCIRuntimes \cap tableOK
        r2 == IF r1.err # "nil" THEN r1
              ELSE IF TableFailureFatal(cfg.OCIRuntimes \ tableOK)
                THEN fail(r1, "newconmon", "runtimes")
              ELSE [r1 EXCEPT !.ociRuntimes =
                      [n \in DOMAIN r1.ociRuntimes \cup made |->
                          IF n \in made THEN OCIRuntimeOf(n, "runtimes")
                          ELSE r1.ociRuntimes[n]]]
        \* Do we have a default OCI runtime?
        r3 == IF r2.err # "nil" \/ cfg.OCIRuntime.parts = <<>> THEN r2
              ELSE IF cfg.OCIRuntime.abs
                THEN IF ~namedOK THEN fail(r2, "newconmon", "runtime")
                     ELSE LET name == Base(cfg.OCIRuntime.parts)
                              o == OCIRuntimeOf(name, "runtime")
                          IN  [r2 EXCEPT !.ociRuntimes = Put(@, name, o),
                                         !.defaultOCIRuntime = o]
                ELSE LET name == cfg.OCIRuntime.parts[1]
                     IN  IF name \notin DOMAIN r2.ociRuntimes
                           THEN fail(r2, "ErrInvalidArg", "runtime")
                           ELSE [r2 EXCEPT !.defaultOCIRuntime = r2.ociRuntimes[name]]
    IN  IF r3.err # "nil" THEN r3
        ELSE IF NoEntries(r3.ociRuntimes) THEN fail(r3, "ErrInvalidArg", "count")
        ELSE IF DefaultMissing(r3.defaultOCIRuntime) THEN fail(r3, "ErrInvalidArg", "default")
        ELSE r3

\* The configurations: runtime_path absent, empty or the list of one path;
\* any table of runtimes; runtime empty, a name or a path.
OCIInit ==
    /\ BootIdle /\ LockIdle /\ LifeIdle /\ MoreIdle
    /\ state = [ctrs |-> <<>>, pods |-> <<>>, vols |-> <<>>]
    /\ user = "root"
    /\ ociConfig \in
          [RuntimePath : {[isNil |-> TRUE, list |-> <<>>], [isNil |-> FALSE, list |-> <<>>],
                          [isNil |-> FALSE, list |-> <<RuncPath>>],
                          [isNil |-> FALSE, list |-> <<CrunPath, RuncPath>>]},
           OCIRuntimes : SUBSET RuntimeNames,
           OCIRuntime : {[abs |-> FALSE, parts |-> <<>>], [abs |-> FALSE, parts |-> <<"runc">>],
                         [abs |-> FALSE, parts |-> <<"crun">>], [abs |-> TRUE, parts |-> RuncPath],
                         [abs |-> TRUE, parts |-> CrunPath]}]
    /\ ociResult = NoOCIResult

\* One bootstrap with the configuration. When the registry cannot be built
\* makeRuntime returns the error; otherwise the rest of the bootstrap decides
\* what is returned.
BuildOCIRuntimes ==
    /\ ociResult.at = "none"
    /\ \E legacyOK \in BOOLEAN, tableOK \in SUBSET RuntimeNames, namedOK \in BOOLEAN,
          rest \in {"nil", "refresh"} :
          LET r == makeOCIRuntimes(ociConfig, legacyOK, tableOK, namedOK)
          IN  ociResult' = r @@ [handle |-> ReturnedRuntime(IF r.err # "nil" THEN r.err
                                                             ELSE rest),
                                 legacyOK |-> legacyOK, tableOK |-> tableOK,
                                 namedOK |-> namedOK]
    /\ UNCHANGED <<bootVars, lockMedium, lockCall, ociConfig, life, ctrRunning, call, moreVars>>

OCINext == BuildOCIRuntimes
SpecOCI == OCIInit /\ [][OCINext]_vars

\* C19: after a successful bootstrap the registry holds at least one entry
\* and a default is designated, a single one as defaultOCIRuntime is one
\* field; a bootstrap that comes to the end of the registry's construction
\* with no entry or no default fails with ErrInvalidArg and produces no
\* Runtime.
C19_EntryAndDefaultOrInvalidArg ==
    ociResult.at # "none" =>
       /\ ociResult.handle # "nil" => ociResult.err = "nil"
       /\ ociResult.err = "nil" =>
             /\ Cardinality(DOMAIN ociResult.ociRuntimes) >= 1
             /\ ociResult.defaultOCIRuntime # NoRuntime
       /\ ociResult.at \notin {"runtime_path", "runtime"}
            /\ (DOMAIN ociResult.ociRuntimes = {} \/ ociResult.defaultOCIRuntime = NoRuntime) =>
             ociResult.err = "ErrInvalidArg" /\ ociResult.handle = "nil"

C19_Witness ==
    /\ ociResult.at = "done" /\ ociResult.err = "nil" /\ ociResult.handle = "runtime"
    /\ Cardinality(DOMAIN ociResult.ociRuntimes) = 2
    /\ ociResult.defaultOCIRuntime = OCIRuntimeOf("crun", "runtimes")

\* C20: when both runtime_path and runtime are configured the default is the
\* runtime built from runtime_path; runtime determines the default only when
\* there is no runtime_path.
C20_LegacyPathWins ==
    ociResult.at = "done" /\ ociConfig.OCIRuntime.parts # <<>> =>
       IF ociConfig.RuntimePath.isNil
         THEN ociResult.defaultOCIRuntime.site \in {"runtimes", "runtime"}
         ELSE ociResult.defaultOCIRuntime.site = "runtime_path"

\* Vocabulary of the properties of the registry: the entries of the runtimes
\* table that failed to initialise, the name the runtime setting asks for, the
\* name of the runtime that runtime_path gives, and whether the runtimes that
\* runtime_path and an absolute runtime ask for could be built.
FailedEntries == ociConfig.OCIRuntimes \ ociResult.tableOK
NamedDefault ==
    IF ociConfig.OCIRuntime.parts # <<>> /\ ~ociConfig.OCIRuntime.abs
      THEN {ociConfig.OCIRuntime.parts[1]} ELSE {}
LegacyNames ==
    IF ~ociConfig.RuntimePath.isNil /\ ociConfig.RuntimePath.list # <<>>
      THEN {Base(ociConfig.RuntimePath.list[1])} ELSE {}
LegacyBroken ==
    ~ociConfig.RuntimePath.isNil /\ (ociConfig.RuntimePath.list = <<>> \/ ~ociResult.legacyOK)
AbsoluteBroken == ociConfig.OCIRuntime.abs /\ ~ociResult.namedOK
TableObjects ==
    {ociResult.ociRuntimes[n] : n \in DOMAIN ociResult.ociRuntimes}
       \cup {ociResult.defaultOCIRuntime}

\* C21 as stated: a runtimes entry that fails to initialise is not in the
\* registry and bootstrap fails on its account exactly when the runtime
\* setting names it; a failing runtime_path or absolute-path default fails
\* bootstrap.
C21_FailedEntryFatalIffNamed ==
    ociResult.at # "none" =>
       /\ \A n \in FailedEntries : OCIRuntimeOf(n, "runtimes") \notin TableObjects
       /\ LegacyBroken \/ AbsoluteBroken => ociResult.err # "nil"
       /\ ~LegacyBroken /\ ~AbsoluteBroken =>
             /\ NamedDefault \cap FailedEntries # {} => ociResult.err # "nil"
             /\ NamedDefault \cap FailedEntries = {} /\ ociResult.err # "nil" =>
                   \/ ociResult.at = "runtime" /\ NamedDefault \cap ociConfig.OCIRuntimes = {}
                   \/ ociResult.at \in {"count", "default"} /\ NamedDefault = {}

\* C21 as amended: as stated, except that a failing entry named by the
\* runtime setting fails bootstrap only when runtime_path did not give a
\* runtime of the same name, which then is the default.
C21_FailedEntryFatalIffNamedAndNoLegacy ==
    ociResult.at # "none" =>
       /\ \A n \in FailedEntries : OCIRuntimeOf(n, "runtimes") \notin TableObjects
       /\ LegacyBroken \/ AbsoluteBroken => ociResult.err # "nil"
       /\ ~LegacyBroken /\ ~AbsoluteBroken =>
             /\ (NamedDefault \cap FailedEntries) \ LegacyNames # {} =>
                   ociResult.err = "ErrInvalidArg" /\ ociResult.at = "runtime"
                     /\ ociResult.handle = "nil"
             /\ NamedDefault \cap FailedEntries \cap LegacyNames # {} =>
                   /\ ociResult.err = "nil"
                   /\ ociResult.defaultOCIRuntime.site = "runtime_path"
             /\ NamedDefault \cap FailedEntries = {} /\ ociResult.err # "nil" =>
                   \/ ociResult.at = "runtime" /\ NamedDefault \cap ociConfig.OCIRuntimes = {}
                   \/ ociResult.at \in {"count", "default"} /\ NamedDefault = {}

C21_Witness ==
    /\ ociResult.at = "done" /\ ociResult.err = "nil"
    /\ FailedEntries = {"crun"} /\ NamedDefault = {"runc"}
    /\ DOMAIN ociResult.ociRuntimes = {"runc"}
    /\ ociResult.defaultOCIRuntime = OCIRuntimeOf("runc", "runtimes")

\* Vocabulary of the properties of a Runtime's life.
ClaimedFailFast == {"GetConfig", "Shutdown", "Info", "GetOCIRuntimePath", "ImageRuntime",
                    "SystemContext"}
StepsBeforeValid == {"config", "state", "dbconfig", "namespace", "store", "ociruntime", "cni", "alivelock",
                     "stat", "lockmgr", "renumber", "refresh"}
AllStopsAttempted == \A c \in Range(state.ctrs) : life.stops[c] >= 1
Closed == life.storeShutdowns > 0 \/ life.stateCloses > 0 \/ life.pc = "closing"

\* C14: the valid flag becomes true only in a bootstrap, and only in one none
\* of whose steps up to the refresh failed; it stays true until Shutdown sets
\* it false, and after that nothing sets it true again.
C14_ValidOnceUntilShutdown ==
    /\ [](life.valid => life.failed \notin StepsBeforeValid /\ ~life.shut)
    /\ [][/\ ~life.valid /\ life'.valid => life.pc = "new" /\ ~life.shut
          /\ life.valid /\ ~life'.valid => life.pc = "ready" /\ life'.pc = "shutdown" /\ life'.shut
          /\ life.shut => life'.shut /\ ~life'.valid]_vars

C14_Witness == life.shut /\ ~life.valid /\ call.op = "GetConfig" /\ call.after

\* C15: after Shutdown has invalidated the Runtime, each of GetConfig,
\* Shutdown, Info, GetOCIRuntimePath, ImageRuntime and SystemContext fails
\* with ErrRuntimeStopped without attempting the operation.
C15_StoppedRuntimeFailsFast ==
    call.after /\ call.op \in ClaimedFailFast =>
       call.err = "ErrRuntimeStopped" /\ ~call.attempted

\* C16: Shutdown without force returns an error whenever a container is
\* still running.
C16_ShutdownFailsWhileRunning ==
    call.op = "Shutdown" /\ ~call.force /\ ctrRunning # {} => call.err \notin {"nil", "none"}

\* C17 as stated: in a Shutdown with force the runtime is not marked invalid
\* and the store is not closed before a stop of every container was
\* attempted.
C17_StopsBeforeInvalidAndClose ==
    life.force /\ life.pc \in {"shutdown", "closing"} /\ ~AllStopsAttempted =>
       life.valid /\ ~Closed

\* C17 as amended: a Shutdown with force marks the runtime invalid first,
\* then attempts to stop every container that the state listed, none when the
\* listing failed, and only then shuts the store down and closes the state.
C17_InvalidThenStopsThenClose ==
    /\ life.pc \in {"shutdown", "closing"} => ~life.valid
    /\ life.force /\ life.listed = "ok" /\ Closed => AllStopsAttempted
    /\ life.todo # <<>> => life.force /\ ~Closed
    /\ life.listed = "error" => \A c \in DOMAIN life.stops : life.stops[c] = 0

C17_Witness ==
    /\ life.force /\ life.listed = "ok" /\ life.stateCloses = 1
    /\ state.ctrs # <<>> /\ AllStopsAttempted

\* C18: only the first Shutdown or DeferredShutdown on a valid runtime tears
\* down: no container is stopped twice, the store is shut down and the state
\* closed at most once; a later Shutdown returns ErrRuntimeStopped without
\* attempting anything, and DeferredShutdown exposes no error.
C18_RepeatedShutdownSafe ==
    /\ \A c \in DOMAIN life.stops : life.stops[c] <= 1
    /\ life.storeShutdowns <= 1 /\ life.stateCloses <= 1
    /\ call.op \in {"Shutdown", "DeferredShutdown"} /\ call.after =>
          /\ ~call.attempted
          /\ call.err = IF call.op = "Shutdown" THEN "ErrRuntimeStopped" ELSE "none"
    /\ call.op = "DeferredShutdown" => call.err = "none"

C18_Witness ==
    /\ call.op = "DeferredShutdown" /\ call.after /\ life.stateCloses = 1
    /\ life.storeShutdowns = 1 /\ \E c \in DOMAIN life.stops : life.stops[c] = 1

----------------------------------------------------------------------------
\* One bootstrap whose caller holds the cancel function of the context it
\* passed to NewRuntime, and may call it at any moment before the constructor
\* returns. The steps are those of the bootstrap; the goroutine running them
\* keeps running, so a refresh pass that can take a step eventually does.
Caller == 1

Cancel ==
    /\ ~ctx.done
    /\ proc[Caller].pc \notin {"returned", "panicked"}
    /\ ctx' = [done |-> TRUE, at |-> proc[Caller].pc, left |-> Len(pass[Caller].todo)]
    /\ UNCHANGED nonCtxVars

CancelNext ==
    \/ \E p \in {Caller} :
          \/ Configure(p)
          \/ LockAlive(p)
          \/ CheckAlive(p)
          \/ UnlockForReexec(p)
          \/ BecomeRoot(p)
          \/ GetLockManager(p)
          \/ Renumber(p)
          \/ BeginRefresh(p)
          \/ RefreshEntity(p)
          \/ CreateAlive(p)
          \/ MarkValid(p)
    \/ Cancel

SpecCancel ==
    /\ Init
    /\ [][CancelNext]_vars
    /\ WF_vars(RefreshEntity(Caller) \/ CreateAlive(Caller))

\* The positions of makeRuntime at which the boot-lifetime lock has been
\* acquired and the refresh pass has not ended.
HoldingLock == {"stat", "lockmgr", "renumber", "refresh", "refresh_loop"}
CancelledAfterLock == ctx.done /\ ctx.at \in HoldingLock

\* C23: a cancellation of the context after the boot-lifetime lock was
\* acquired does not end the refresh pass: a pass that was entered leaves its
\* loops, it never returns because of the cancellation, and when it has left
\* them every entity's refresh was invoked once and the alive file was
\* created unless creating it failed.
C23_CancelDoesNotInterruptRefresh ==
    /\ [](CancelledAfterLock /\ HasPassed(Caller, "Refreshing") =>
            /\ proc[Caller].err # "cancelled"
            /\ ~InRefresh(Caller) =>
                  /\ AllInvokedOnce(Caller)
                  /\ aliveFile \/ proc[Caller].err = "alivefile-create")
    /\ (CancelledAfterLock /\ InRefresh(Caller)) ~>
          (~InRefresh(Caller) /\ AllInvokedOnce(Caller))

C23_Witness ==
    /\ ctx.done /\ ctx.at = "refresh_loop" /\ ctx.left > 1
    /\ Returned(Caller) /\ proc[Caller].err = "nil"
    /\ StateEntities # {} /\ AllInvokedOnce(Caller) /\ aliveFile

----------------------------------------------------------------------------
\* The lock manager (package lock, used through Runtime.lockManager): a pool
\* of PoolSize numbered locks on a medium shared by the processes of the host.

Indices == 0..(PoolSize - 1)
Min(S) == CHOOSE x \in S : \A y \in S : x <= y
Max(S) == CHOOSE x \in S : \A y \in S : x >= y

\* The indices that an allocation may hand out: those of the pool that are
\* not allocated.
C24_OneBeyond(alloc) == {i \in 0..PoolSize : i \notin alloc}
FreeIndices(alloc) == {i \in Indices : i \notin alloc}

\* The index an allocation picks among the free ones: the lowest.
C25_HighestFree(free) == Max(free)
LowestFree(free) == Min(free)

\* allocate(): reserves the lowest free index, or fails when none is free.
allocate(alloc) ==
    LET free == FreeIndices(alloc)
    IN  IF free = {}
          THEN [err |-> "ResourceExhausted", index |-> NoIndex, allocated |-> alloc]
          ELSE [err |-> "nil", index |-> LowestFree(free),
                allocated |-> alloc \cup {LowestFree(free)}]

\* free(index): returns the index to the pool. Freeing an index that is not
\* allocated changes nothing; whether it reports an error is the
\* implementation's choice.
free(alloc, i, silent) ==
    IF i \in alloc
      THEN [err |-> "nil", allocated |-> alloc \ {i}]
      ELSE [err |-> IF silent THEN "nil" ELSE "NotAllocated", allocated |-> alloc]

\* A lock manager on a new medium, and the calls that allocate and free.
PoolInit ==
    /\ BootIdle /\ LockIdle /\ OCIIdle /\ LifeIdle
    /\ state = [ctrs |-> <<>>, pods |-> <<>>, vols |-> <<>>]
    /\ user = "root"
    /\ MoreIdle

LogEntry(op, arg, err, index) == [op |-> op, arg |-> arg, err |-> err, index |-> index]

Allocate ==
    /\ Len(poolLog) < MaxOps
    /\ LET r == allocate(allocated)
       IN  /\ allocated' = r.allocated
           /\ poolCall' = [NoPoolCall EXCEPT !.op = "allocate", !.index = r.index,
                                             !.err = r.err, !.before = allocated]
           /\ poolLog' = Append(poolLog, LogEntry("allocate", NoIndex, r.err, r.index))
    /\ UNCHANGED <<nonPoolVars, entityLock, held, waiting>>

Free ==
    /\ Len(poolLog) < MaxOps
    /\ \E i \in Indices, silent \in BOOLEAN :
          LET r == free(allocated, i, silent)
          IN  /\ allocated' = r.allocated
              /\ poolCall' = [NoPoolCall EXCEPT !.op = "free", !.index = i,
                                                !.err = r.err, !.before = allocated]
              /\ poolLog' = Append(poolLog, LogEntry("free", i, r.err, NoIndex))
    /\ UNCHANGED <<nonPoolVars, entityLock, held, waiting>>

PoolNext == Allocate \/ Free
SpecPool == PoolInit /\ [][PoolNext]_vars

\* C24: the pool never holds more than PoolSize allocated indices, each of
\* them in 0..PoolSize-1, and an allocate made while PoolSize indices are
\* allocated fails with ResourceExhausted and leaves the pool as it was.
C24_PoolBounded ==
    /\ Cardinality(allocated) <= PoolSize
    /\ \A i \in allocated : 0 <= i /\ i <= PoolSize - 1
    /\ poolCall.op = "allocate" /\ Cardinality(poolCall.before) = PoolSize =>
          /\ poolCall.err = "ResourceExhausted" /\ poolCall.index = NoIndex
          /\ allocated = poolCall.before
    /\ poolCall.op = "allocate" /\ Cardinality(poolCall.before) < PoolSize =>
          /\ poolCall.err = "nil"
          /\ allocated = poolCall.before \cup {poolCall.index}
          /\ poolCall.index \notin poolCall.before

C24_Witness ==
    /\ poolCall.op = "allocate" /\ poolCall.err = "ResourceExhausted"
    /\ Cardinality(allocated) = PoolSize
    /\ \E k \in 1..Len(poolLog) : poolLog[k].op = "free" /\ poolLog[k].err = "nil"

\* The calls and the results of the scenario: three allocations, a fourth,
\* free(1) and one more allocation.
ScenarioCalls ==
    <<"allocate", "allocate", "allocate", "allocate", "free", "allocate">>
ScenarioArgs == <<NoIndex, NoIndex, NoIndex, NoIndex, 1, NoIndex>>
ScenarioResults ==
    <<LogEntry("allocate", NoIndex, "nil", 0), LogEntry("allocate", NoIndex, "nil", 1),
      LogEntry("allocate", NoIndex, "nil", 2),
      LogEntry("allocate", NoIndex, "ResourceExhausted", NoIndex),
      LogEntry("free", 1, "nil", NoIndex), LogEntry("allocate", NoIndex, "nil", 1)>>
IsScenario ==
    /\ Len(poolLog) = Len(ScenarioCalls)
    /\ \A k \in 1..Len(poolLog) :
          poolLog[k].op = ScenarioCalls[k] /\ poolLog[k].arg = ScenarioArgs[k]

\* C25: a successful allocate returns the lowest index that was free, and
\* on a pool of size 3 the calls of the scenario return 0, 1, 2,
\* ResourceExhausted, success of free(1), and 1.
C25_LowestFreeIndex ==
    /\ poolCall.op = "allocate" /\ poolCall.err = "nil" =>
          /\ poolCall.index \in Indices \ poolCall.before
          /\ \A i \in Indices \ poolCall.before : poolCall.index <= i
    /\ PoolSize = 3 /\ IsScenario => poolLog = ScenarioResults

C25_Witness == PoolSize = 3 /\ IsScenario /\ poolLog = ScenarioResults

----------------------------------------------------------------------------
\* Entities and their locks. A new entity is given an allocated lock index,
\* which its record stores; its removal, made by a process that holds its
\* lock, frees the index. The processes of the host lock and unlock the
\* entities' locks through the shared medium.

LiveEntities == {e \in PoolEntities : entityLock[e] # NoIndex}
Holders(i) == {p \in Procs : <<p, i>> \in held}
Blocked(p) == \E i \in Indices : <<p, i>> \in waiting

\* Removing an entity frees the lock index of its record.
C26_LeakIndex(alloc, i) == alloc
FreeOnRemove(alloc, i) == free(alloc, i, TRUE).allocated

\* lock(Lock) returns when no process holds the lock.
C27_NeverBlocks(h, i) == TRUE
LockFree(h, i) == \A p \in Procs : <<p, i>> \notin h

CreateEntity ==
    \E p \in Procs, e \in PoolEntities, addOK \in BOOLEAN :
       /\ ~Blocked(p)
       /\ LET r == allocate(allocated)
              exists == entityLock[e] # NoIndex
              err == IF r.err # "nil" THEN r.err
                     ELSE IF exists THEN "AlreadyExists"
                     ELSE IF ~addOK THEN "addrecord" ELSE "nil"
          IN  /\ allocated' = IF err = "nil" THEN r.allocated ELSE allocated
              /\ entityLock' = IF err = "nil" THEN [entityLock EXCEPT ![e] = r.index]
                                ELSE entityLock
              /\ poolCall' = [op |-> "create", proc |-> 0, entity |-> e,
                              index |-> IF err = "nil" THEN r.index ELSE NoIndex,
                              err |-> err, before |-> {},
                              freedBefore |-> IF poolCall.op = "remove"
                                                THEN poolCall.index ELSE NoIndex]
       /\ UNCHANGED <<nonPoolVars, poolLog, held, waiting>>

LockEntity ==
    \E p \in Procs, e \in LiveEntities :
       /\ ~Blocked(p)
       /\ <<p, entityLock[e]>> \notin held
       /\ waiting' = waiting \cup {<<p, entityLock[e]>>}
       /\ UNCHANGED <<nonPoolVars, allocated, poolCall, poolLog, entityLock, held>>

AcquireLock ==
    \E p \in Procs, i \in Indices :
       /\ <<p, i>> \in waiting
       /\ LockFree(held, i)
       /\ held' = held \cup {<<p, i>>}
       /\ waiting' = waiting \ {<<p, i>>}
       /\ UNCHANGED <<nonPoolVars, allocated, poolCall, poolLog, entityLock>>

UnlockIndex ==
    \E p \in Procs, i \in Indices :
       /\ ~Blocked(p)
       /\ <<p, i>> \in held
       /\ held' = held \ {<<p, i>>}
       /\ UNCHANGED <<nonPoolVars, allocated, poolCall, poolLog, entityLock, waiting>>

RemoveEntity ==
    \E p \in Procs, e \in LiveEntities :
       /\ ~Blocked(p)
       /\ <<p, entityLock[e]>> \in held
       /\ allocated' = FreeOnRemove(allocated, entityLock[e])
       /\ entityLock' = [entityLock EXCEPT ![e] = NoIndex]
       /\ held' = held \ {<<p, entityLock[e]>>}
       /\ poolCall' = [op |-> "remove", proc |-> 0, entity |-> e, index |-> entityLock[e],
                       err |-> "nil", before |-> {}, freedBefore |-> NoIndex]
       /\ UNCHANGED <<nonPoolVars, poolLog, waiting>>

EntityNext == CreateEntity \/ LockEntity \/ AcquireLock \/ UnlockIndex \/ RemoveEntity
SpecEntity == PoolInit /\ [][EntityNext]_vars

\* C26: no two live entities have the same lock index; the index of an
\* entity that was removed is not allocated and is among the indices that an
\* allocate hands out, and no index stays allocated without a live entity.
C26_LiveEntitiesDistinctIndices ==
    /\ \A e1, e2 \in LiveEntities : e1 # e2 => entityLock[e1] # entityLock[e2]
    /\ \A e \in LiveEntities : entityLock[e] \in allocated
    /\ poolCall.op = "remove" =>
          /\ poolCall.index \notin allocated
          /\ poolCall.index \in FreeIndices(allocated)
          /\ allocate(allocated).err = "nil"
          /\ \A e \in LiveEntities : entityLock[e] # poolCall.index
    /\ poolCall.op = "create" /\ poolCall.err = "nil" /\ poolCall.freedBefore # NoIndex =>
          poolCall.index <= poolCall.freedBefore

C26_Witness ==
    /\ poolCall.op = "create" /\ poolCall.err = "nil"
    /\ poolCall.index = poolCall.freedBefore
    /\ Cardinality(LiveEntities) >= 2

\* C27: no lock index is held by two processes, a lock call returns only
\* when no process holds the index, and a process whose lock call has not
\* returned stays blocked while another process holds the index.
C27_OneHolderPerIndex ==
    /\ [](\A i \in Indices : Cardinality(Holders(i)) <= 1)
    /\ [][\A p \in Procs, i \in Indices :
            /\ <<p, i>> \in held' /\ <<p, i>> \notin held =>
                  Holders(i) = {} /\ <<p, i>> \in waiting
            /\ <<p, i>> \in waiting /\ Holders(i) # {} /\ Holders(i) \subseteq Holders(i)' =>
                  <<p, i>> \in waiting' /\ <<p, i>> \notin held']_vars

C27_Witness ==
    \E p, q \in Procs, i \in Indices :
       /\ p # q /\ <<p, i>> \in held /\ <<q, i>> \in waiting
       /\ \E e \in LiveEntities : entityLock[e] = i

----------------------------------------------------------------------------
\* The state store's container records and their lookup. An ID is a word of
\* IdLen letters, a name a word the user chose, which may look like an ID or
\* like the beginning of one.

Hex == {"a", "b"}
AllIds == [1..IdLen -> Hex]
StoreNames == {<<"a">>, <<"x">>, <<"a", "b">>}
Keys == (UNION {[1..n -> Hex] : n \in 1..IdLen}) \cup StoreNames

IsPrefix(k, id) == Len(k) <= Len(id) /\ \A i \in 1..Len(k) : k[i] = id[i]
ByID(store, k) == {r \in store : r.id = k}
ByName(store, k) == {r \in store : r.name = k}
ByPrefix(store, k) == {r \in store : IsPrefix(k, r.id)}

\* createContainer(record): fails if a record with the same ID or the same
\* name exists.
createContainer(store, rec) ==
    IF \E r \in store : r.id = rec.id \/ r.name = rec.name
      THEN [err |-> "AlreadyExists", store |-> store]
      ELSE [err |-> "nil", store |-> store \cup {rec}]

\* An ID prefix that several records match is ambiguous.
C28_FirstMatch(matches) == FALSE
Ambiguous(matches) == Cardinality(matches) >= 2

\* lookup(nameOrID): the record with that ID, else the record with that
\* name, else the one record whose ID begins with the key.
lookup(store, k) ==
    LET found(rs) == [key |-> k, err |-> "nil", rec |-> CHOOSE r \in rs : TRUE]
        failed(e) == [key |-> k, err |-> e, rec |-> NoRecord]
    IN  IF ByID(store, k) # {} THEN found(ByID(store, k))
        ELSE IF ByName(store, k) # {} THEN found(ByName(store, k))
        ELSE IF Ambiguous(ByPrefix(store, k)) THEN failed("AmbiguousID")
        ELSE IF ByPrefix(store, k) = {} THEN failed("NotFound")
        ELSE found(ByPrefix(store, k))

StoreInit ==
    /\ BootIdle /\ LockIdle /\ OCIIdle /\ LifeIdle
    /\ state = [ctrs |-> <<>>, pods |-> <<>>, vols |-> <<>>]
    /\ user = "root"
    /\ MoreIdle

CreateContainer ==
    /\ \E id \in AllIds, name \in StoreNames :
          LET r == createContainer(containers, [id |-> id, name |-> name,
                                                status |-> "configured"])
          IN  /\ Cardinality(containers) < MaxRecords
              /\ containers' = r.store
    /\ lookupCall' = NoLookup
    /\ UNCHANGED <<nonStoreVars, infoCall>>

LookupContainer ==
    /\ \E k \in Keys : lookupCall' = lookup(containers, k)
    /\ UNCHANGED <<nonStoreVars, containers, infoCall>>

StoreNext == CreateContainer \/ LookupContainer
SpecStore == StoreInit /\ [][StoreNext]_vars

\* The records that the key of the last lookup matches in some way.
Looked == lookupCall.key # <<>>
Matching ==
    ByID(containers, lookupCall.key) \cup ByName(containers, lookupCall.key)
       \cup ByPrefix(containers, lookupCall.key)
Returns(r) == lookupCall.err = "nil" /\ lookupCall.rec = r

----------------------------------------------------------------------------
\* Info's container counts (Runtime.Info, "get store information": the store
\* information counts the containers of the state by their last-known
\* status). The containers are made as the test "podman info container
\* counts" makes them: created, started, paused, stopped.

\* The ID of the n-th container made, and the name generated for it.
IdOf(n) == [i \in 1..IdLen |-> IF (n \div (2 ^ (IdLen - i))) % 2 = 0 THEN "a" ELSE "b"]
NameOf(id) == <<"n">> \o id

\* A container that is neither running nor paused counts as stopped.
C29_OnlyAfterStop(status) == status = "stopped"
CountsAsStopped(status) == status \notin {"running", "paused"}

Tally(acc, status) ==
    [acc EXCEPT !.number = @ + 1,
                !.running = IF status = "running" THEN @ + 1 ELSE @,
                !.paused = IF status = "paused" THEN @ + 1 ELSE @,
                !.stopped = IF CountsAsStopped(status) THEN @ + 1 ELSE @]

\* The loop over all containers of the state.
RECURSIVE ContainerCounts(_, _)
ContainerCounts(cs, acc) ==
    IF cs = {} THEN acc
    ELSE LET c == CHOOSE x \in cs : TRUE
         IN  ContainerCounts(cs \ {c}, Tally(acc, c.status))

SetStatus(c, status) ==
    /\ containers' = (containers \ {c}) \cup {[c EXCEPT !.status = status]}
    /\ infoCall' = NoInfo
    /\ UNCHANGED <<nonStoreVars, lookupCall>>

\* containers.CreateWithSpec: a container that is created and not started.
CreateWithSpec ==
    /\ Cardinality(containers) < MaxCtrs
    /\ Cardinality(containers) < 2 ^ IdLen
    /\ LET id == IdOf(Cardinality(containers))
           r == createContainer(containers, [id |-> id, name |-> NameOf(id),
                                             status |-> "configured"])
       IN  containers' = r.store
    /\ infoCall' = NoInfo
    /\ UNCHANGED <<nonStoreVars, lookupCall>>

\* bt.RunTopContainer starts the container it created; containers.Pause and
\* containers.Stop act on a running container.
StartContainer == \E c \in containers : c.status = "configured" /\ SetStatus(c, "running")
PauseContainer == \E c \in containers : c.status = "running" /\ SetStatus(c, "paused")
StopRunning == \E c \in containers : c.status = "running" /\ SetStatus(c, "stopped")

ContainerInfo ==
    /\ infoCall' = ContainerCounts(containers, [NoInfo EXCEPT !.asked = TRUE])
    /\ UNCHANGED <<nonStoreVars, containers, lookupCall>>

InfoNext ==
    \/ CreateWithSpec
    \/ StartContainer
    \/ PauseContainer
    \/ StopRunning
    \/ ContainerInfo
SpecInfo == StoreInit /\ [][InfoNext]_vars

WithStatus(status) == {c \in containers : c.status = status}
ScenarioState ==
    /\ Cardinality(containers) = 4
    /\ Cardinality(WithStatus("running")) = 1 /\ Cardinality(WithStatus("paused")) = 1
    /\ Cardinality(WithStatus("stopped")) = 1 /\ Cardinality(WithStatus("configured")) = 1

\* C29: the counts of Info are those of the container records: the number is
\* that of the records, every record is counted under exactly one of
\* running, paused and stopped, under stopped when it is neither running nor
\* paused; one created, one paused, one stopped and one running container
\* give 4 containers, 1 running, 1 paused and 2 stopped.
C29_InfoCountsEveryContainerOnce ==
    infoCall.asked =>
       /\ infoCall.number = Cardinality(containers)
       /\ infoCall.running + infoCall.paused + infoCall.stopped = infoCall.number
       /\ infoCall.running = Cardinality(WithStatus("running"))
       /\ infoCall.paused = Cardinality(WithStatus("paused"))
       /\ infoCall.stopped =
             Cardinality(WithStatus("stopped")) + Cardinality(WithStatus("configured"))
       /\ ScenarioState =>
             /\ infoCall.number = 4 /\ infoCall.running = 1
             /\ infoCall.paused = 1 /\ infoCall.stopped = 2

C29_Witness ==
    /\ infoCall.asked /\ ScenarioState
    /\ infoCall.number = 4 /\ infoCall.stopped = 2

\* C22: a bootstrap that fails because the configuration persisted in the
\* state store cannot be read, merged or validated returns at that point: the
\* state store is open and nothing else has happened; the namespace is not
\* set, the lock manager is not opened, the boot-lifetime lock was never
\* taken by this bootstrap and no entity was refreshed.
C22_DBConfigFailureStopsEarly ==
    \A p \in Procs :
       Returned(p) /\ proc[p].err = "dbconfig" =>
          /\ stages[p] = <<"StoreOpened">>
          /\ ~runtime[p].namespaceSet
          /\ ~HasPassed(p, "LockManagerReady")
          /\ ~HasPassed(p, "AliveLocked") /\ ~proc[p].locked /\ p \notin aliveLock
          /\ NothingInvoked(p)
          /\ ~runtime[p].valid /\ proc[p].handle = "nil"

C22_Witness ==
    \E p, q \in Procs :
       /\ Returned(p) /\ proc[p].err = "dbconfig" /\ stages[p] = <<"StoreOpened">>
       /\ Returned(q) /\ proc[q].err = "store" /\ runtime[q].namespaceSet

\* C30: a bootstrap whose state type is the disabled SQLite or none that is
\* recognised fails with ErrInvalidArg without asking for any state store to
\* be opened, and one whose lock type is unknown fails with ErrInvalidArg
\* without opening, creating or removing a lock medium; neither produces a
\* Runtime.
C30_UnknownTypesAreInvalidArg ==
    /\ lockCall.stateType \in {"SQLite", "invalid"} =>
          /\ lockCall.err = "ErrInvalidArg" /\ lockCall.handle = "nil"
          /\ ~lockCall.stateOpened
          /\ ~lockCall.opened /\ lockMedium = lockCall.before
    /\ lockCall.lockType = "unknown" =>
          /\ lockCall.err = "ErrInvalidArg" /\ lockCall.handle = "nil"
          /\ ~lockCall.opened /\ ~lockCall.created /\ ~lockCall.removed
          /\ lockMedium = lockCall.before

C30_Witness ==
    /\ lockCall.lockType = "unknown" /\ lockCall.err = "ErrInvalidArg"
    /\ lockCall.stateType = "BoltDB" /\ lockCall.stateOpened
    /\ lockCall.before.shm > 0 /\ lockMedium = lockCall.before

C30_WitnessState ==
    /\ lockCall.stateType = "invalid" /\ lockCall.err = "ErrInvalidArg"
    /\ lockCall.lockType = "none"

\* C37: a bootstrap that returned an error has left the valid flag of its
\* Runtime object false.
C37_FailedBootstrapNotValid ==
    \A p \in Procs : Returned(p) /\ proc[p].err # "nil" => ~runtime[p].valid

C36_DefaultIsRegistryEntry ==
    ociResult.at = "done" /\ ociResult.err = "nil" =>
       /\ ociResult.defaultOCIRuntime.name \in DOMAIN ociResult.ociRuntimes
       /\ ociResult.ociRuntimes[ociResult.defaultOCIRuntime.name] = ociResult.defaultOCIRuntime

-----------------------------------------------------------------------------
\* GetConfig and Shutdown called by the threads of one process on one valid
\* Runtime. Both start with r.lock, a sync.RWMutex: GetConfig with RLock and
\* a deferred RUnlock, Shutdown with Lock and a deferred Unlock, so that each
\* holds the lock until it returns.

\* r.lock.RLock() returns while no writer holds the lock, r.lock.Lock() while
\* nobody holds it.
CanRLock(readers, writers) == writers = {}
C32_NoExclusion(readers, writers) == TRUE
CanLock(readers, writers) == readers = {} /\ writers = {}

ThreadAt(i, pc) == threads.t[i].pc = pc
InGetConfig(i) == threads.t[i].pc \in {"check", "copy", "runlock"}
InShutdown(i) == threads.t[i].pc \in {"s_check", "invalidate", "teardown", "unlock"}

RWInit ==
    /\ RestIdle
    /\ nsCall = NoNsCall /\ request = NoRequest /\ unitCall = NoUnitCall
    /\ threads = [NoThreads EXCEPT !.valid = TRUE]

\* GetConfig: "r.lock.RLock()".
RLock(i) ==
    /\ ThreadAt(i, "idle")
    /\ CanRLock(threads.readers, threads.writers)
    /\ threads' = [threads EXCEPT !.readers = @ \cup {i}, !.t[i].pc = "check",
                                  !.t[i].op = "GetConfig"]
    /\ UNCHANGED <<nonApiVars, nsCall, request, unitCall>>

\* GetConfig: "if !r.valid { return nil, define.ErrRuntimeStopped }".
ReadValid(i) ==
    /\ ThreadAt(i, "check")
    /\ threads' = IF RuntimeStopped(threads.valid)
                    THEN [threads EXCEPT !.t[i].pc = "runlock",
                                         !.t[i].err = "ErrRuntimeStopped"]
                    ELSE [threads EXCEPT !.t[i].pc = "copy", !.t[i].sawValid = TRUE]
    /\ UNCHANGED <<nonApiVars, nsCall, request, unitCall>>

\* GetConfig: JSONDeepCopy of r.config into a new Config, which can fail.
CopyConfig(i) ==
    /\ ThreadAt(i, "copy")
    /\ \E e \in {"nil", "copy"} :
          threads' = [threads EXCEPT !.t[i].pc = "runlock", !.t[i].err = e,
                                     !.t[i].lateCopy = threads.begun]
    /\ UNCHANGED <<nonApiVars, nsCall, request, unitCall>>

\* GetConfig returns: the deferred "r.lock.RUnlock()".
RUnlock(i) ==
    /\ ThreadAt(i, "runlock")
    /\ threads' = [threads EXCEPT !.readers = @ \ {i}, !.t[i].pc = "done"]
    /\ UNCHANGED <<nonApiVars, nsCall, request, unitCall>>

\* Shutdown: "r.lock.Lock()".
Lock(i) ==
    /\ ThreadAt(i, "idle")
    /\ CanLock(threads.readers, threads.writers)
    /\ threads' = [threads EXCEPT !.writers = @ \cup {i}, !.t[i].pc = "s_check",
                                  !.t[i].op = "Shutdown"]
    /\ UNCHANGED <<nonApiVars, nsCall, request, unitCall>>

\* Shutdown: "if !r.valid { return define.ErrRuntimeStopped }".
CheckValid(i) ==
    /\ ThreadAt(i, "s_check")
    /\ threads' = IF RuntimeStopped(threads.valid)
                    THEN [threads EXCEPT !.t[i].pc = "unlock",
                                         !.t[i].err = "ErrRuntimeStopped"]
                    ELSE [threads EXCEPT !.t[i].pc = "invalidate", !.t[i].sawValid = TRUE]
    /\ UNCHANGED <<nonApiVars, nsCall, request, unitCall>>

\* Shutdown: "r.valid = false", where the teardown begins.
Invalidate(i) ==
    /\ ThreadAt(i, "invalidate")
    /\ threads' = [threads EXCEPT !.valid = FALSE, !.begun = TRUE,
                                  !.teardowns = @ + 1, !.t[i].pc = "teardown"]
    /\ UNCHANGED <<nonApiVars, nsCall, request, unitCall>>

\* Shutdown: the stops of the containers, the store's shutdown and the
\* state's Close, and the last error.
Teardown(i) ==
    /\ ThreadAt(i, "teardown")
    /\ \E e \in {"nil", "EBUSY", "stateclose"} :
          threads' = [threads EXCEPT !.t[i].pc = "unlock", !.t[i].err = e]
    /\ UNCHANGED <<nonApiVars, nsCall, request, unitCall>>

\* Shutdown returns: the deferred "r.lock.Unlock()".
Unlock(i) ==
    /\ ThreadAt(i, "unlock")
    /\ threads' = [threads EXCEPT !.writers = @ \ {i}, !.t[i].pc = "done"]
    /\ UNCHANGED <<nonApiVars, nsCall, request, unitCall>>

RWNext ==
    \E i \in Threads :
       \/ RLock(i)
       \/ ReadValid(i)
       \/ CopyConfig(i)
       \/ RUnlock(i)
       \/ Lock(i)
       \/ CheckValid(i)
       \/ Invalidate(i)
       \/ Teardown(i)
       \/ Unlock(i)
SpecRW == RWInit /\ [][RWNext]_vars

CallReturned(i, op) == threads.t[i].op = op /\ ThreadAt(i, "done")
TornDownBy(i) == threads.t[i].op = "Shutdown" /\ threads.t[i].sawValid

\* C32: no thread is inside GetConfig while a thread is inside Shutdown, and
\* no two threads are inside Shutdown; a GetConfig that returned either made
\* its copy, or failed in it, before any teardown began, or it returned
\* ErrRuntimeStopped after one began; at most one teardown is performed, and
\* of the Shutdown calls that returned exactly one performed it, the others
\* returning ErrRuntimeStopped.
C32_ReadersExcludeShutdown ==
    /\ \A i, j \in Threads : InShutdown(j) /\ i # j => ~InGetConfig(i) /\ ~InShutdown(i)
    /\ \A i \in Threads : CallReturned(i, "GetConfig") =>
          \/ threads.t[i].err = "ErrRuntimeStopped" /\ threads.begun
          \/ threads.t[i].err \in {"nil", "copy"} /\ ~threads.t[i].lateCopy
    /\ threads.teardowns <= 1
    /\ (\E i \in Threads : CallReturned(i, "Shutdown")) =>
          /\ threads.teardowns = 1
          /\ Cardinality({i \in Threads : TornDownBy(i)}) = 1
          /\ \A i \in Threads : CallReturned(i, "Shutdown") /\ ~TornDownBy(i) =>
                 threads.t[i].err = "ErrRuntimeStopped"

\* two Shutdown calls returned, one after the teardown and one with
\* ErrRuntimeStopped, and a GetConfig returned a copy
C32_Witness ==
    /\ \E i, j \in Threads :
          /\ i # j /\ CallReturned(i, "Shutdown") /\ CallReturned(j, "Shutdown")
          /\ TornDownBy(i) /\ threads.t[j].err = "ErrRuntimeStopped"
    /\ \E i \in Threads : CallReturned(i, "GetConfig") /\ threads.t[i].err = "nil"

\* two GetConfig calls hold the lock at the same time
C32_ConcurrentReaders ==
    \E i, j \in Threads : i # j /\ ThreadAt(i, "copy") /\ ThreadAt(j, "copy")

-----------------------------------------------------------------------------
\* The namespace strings of specgen. A string is the sequence of its pieces:
\* the words that the parsers know, another word "x", and the separators.
Pieces == {"host", "private", "ns", "container", "bridge", "none", "x", ":", ","}
Strings(n) == UNION { [1..k -> Pieces] : k \in 0..n }
NsInputs == Strings(NsLen)

\* strings.HasPrefix(s, prefix)
HasPrefix(s, prefix) == Len(s) >= Len(prefix) /\ SubSeq(s, 1, Len(prefix)) = prefix

\* The positions of sep in s.
Positions(s, sep) == {i \in 1..Len(s) : s[i] = sep}

\* strings.SplitN(s, sep, 2): s cut at the first sep, s alone without one.
SplitN2(s, sep) ==
    IF Positions(s, sep) = {} THEN <<s>>
    ELSE LET i == CHOOSE k \in Positions(s, sep) : \A j \in Positions(s, sep) : k <= j
         IN  <<SubSeq(s, 1, i - 1), SubSeq(s, i + 1, Len(s))>>

\* strings.Split(s, sep): s cut at every sep.
RECURSIVE Split(_, _)
Split(s, sep) ==
    IF Positions(s, sep) = {} THEN <<s>>
    ELSE <<SplitN2(s, sep)[1]>> \o Split(SplitN2(s, sep)[2], sep)

\* The modes that both validations accept and the network modes.
CommonModes == {"", "default", "host", "path", "container", "pod", "private"}
NetworkModes == {"none", "bridge", "slirp4netns"}

\* "Path and From Container MUST have a string value set", "All others must
\* NOT set a string value".
valueCheck(n) ==
    IF n.NSMode \in {"path", "container"}
      THEN IF Len(n.Value) < 1 THEN "requires a value" ELSE "nil"
      ELSE IF Len(n.Value) > 0 THEN "value cannot be provided" ELSE "nil"

\* Namespace.validate
validate(n) ==
    CASE n.NSMode \in CommonModes -> valueCheck(n)
      [] n.NSMode \in NetworkModes -> "network mode with non-network namespace"
      [] OTHER -> "invalid namespace type"

\* validateNetNS
validateNetNS(n) ==
    IF n.NSMode \in CommonModes \cup NetworkModes THEN valueCheck(n)
    ELSE "invalid network"

\* The cases of both parsers for "ns:" and "container:".
parseWithValue(ns, mode) ==
    LET split == SplitN2(ns, ":")
    IN  IF Len(split) # 2
          THEN [ns |-> NoNamespace, cniNetworks |-> <<>>, err |-> "must provide"]
          ELSE [ns |-> [NSMode |-> mode, Value |-> split[2]], cniNetworks |-> <<>>,
                err |-> "nil"]

parsedMode(mode) == [ns |-> [NSMode |-> mode, Value |-> <<>>], cniNetworks |-> <<>>,
                     err |-> "nil"]

\* ParseNamespace
ParseNamespace(ns) ==
    CASE ns = <<"host">> -> parsedMode("host")
      [] ns = <<"private">> -> parsedMode("private")
      [] HasPrefix(ns, <<"ns", ":">>) -> parseWithValue(ns, "path")
      [] HasPrefix(ns, <<"container", ":">>) -> parseWithValue(ns, "container")
      [] OTHER -> [ns |-> NoNamespace, cniNetworks |-> <<>>, err |-> "unrecognized"]

\* ParseNetworkNamespace
ParseNetworkNamespace(ns) ==
    CASE ns = <<"bridge">> -> parsedMode("bridge")
      [] ns = <<"none">> -> parsedMode("none")
      [] ns = <<"host">> -> parsedMode("host")
      [] ns = <<"private">> -> parsedMode("private")
      [] HasPrefix(ns, <<"ns", ":">>) -> parseWithValue(ns, "path")
      [] HasPrefix(ns, <<"container", ":">>) -> parseWithValue(ns, "container")
      [] OTHER -> [ns |-> [NSMode |-> "bridge", Value |-> <<>>],
                   cniNetworks |-> Split(ns, ","), err |-> "nil"]

NsInit ==
    /\ RestIdle
    /\ threads = NoThreads /\ request = NoRequest /\ unitCall = NoUnitCall
    /\ \E s \in NsInputs : nsCall = [NoNsCall EXCEPT !.input = s]

\* A call of ParseNamespace on the string.
CallParseNamespace ==
    /\ nsCall.fn = "none"
    /\ LET r == ParseNamespace(nsCall.input)
       IN  nsCall' = [nsCall EXCEPT !.fn = "ParseNamespace", !.ns = r.ns,
                                   !.cniNetworks = r.cniNetworks, !.err = r.err]
    /\ UNCHANGED <<nonApiVars, threads, request, unitCall>>

\* A call of ParseNetworkNamespace on the string.
CallParseNetworkNamespace ==
    /\ nsCall.fn = "none"
    /\ LET r == ParseNetworkNamespace(nsCall.input)
       IN  nsCall' = [nsCall EXCEPT !.fn = "ParseNetworkNamespace", !.ns = r.ns,
                                   !.cniNetworks = r.cniNetworks, !.err = r.err]
    /\ UNCHANGED <<nonApiVars, threads, request, unitCall>>

\* The validation of a namespace that a parser returned without error:
\* validate for ParseNamespace, validateNetNS for ParseNetworkNamespace.
ValidateParsed ==
    /\ nsCall.fn # "none" /\ nsCall.err = "nil" /\ ~nsCall.validated
    /\ nsCall' = [nsCall EXCEPT
          !.validated = TRUE,
          !.validateErr = IF nsCall.fn = "ParseNamespace" THEN validate(nsCall.ns)
                          ELSE validateNetNS(nsCall.ns)]
    /\ UNCHANGED <<nonApiVars, threads, request, unitCall>>

NsNext == CallParseNamespace \/ CallParseNetworkNamespace \/ ValidateParsed
SpecNS == NsInit /\ [][NsNext]_vars

\* C38: a namespace that ParseNamespace returned without error passes
\* Namespace.validate and one that ParseNetworkNamespace returned without
\* error passes validateNetNS; none of them has the mode path or container
\* and an empty value.
C38_ParsedNamespaceValidates ==
    /\ nsCall.validated => nsCall.validateErr = "nil"
    /\ nsCall.fn # "none" /\ nsCall.err = "nil" /\ nsCall.ns.NSMode \in {"path", "container"} =>
          nsCall.ns.Value # <<>>

-----------------------------------------------------------------------------
\* The image handlers of the libpod API. A handler is the sequence of the
\* calls it makes for a request; a call that fails makes the handler write
\* an error response and return, unless said otherwise below.
Handlers == {"ImageExists", "ImageTree", "GetImage", "GetImages", "PruneImages",
             "ExportImage", "ImagesLoad", "ImagesImport", "ImagesPull", "PushImage",
             "CommitContainer", "UntagImage"}
TempHandlers == {"ExportImage", "ImagesLoad", "ImagesImport"}

\* What of a request decides the calls made: the format of an export, and
\* whether an import has a URL; the number of images listed or of tags
\* pulled; whether the optional parameter (filters, reference, credentials,
\* allTags) is given.
Variants(h) ==
    CASE h = "ExportImage" -> {"archive", "dir", "unknown"}
      [] h = "ImagesImport" -> {"url", "body"}
      [] OTHER -> {"any"}
Counts(h) == IF h \in {"GetImages", "ImagesPull"} THEN 0..MaxItems ELSE {0}
Options(h) ==
    IF h \in {"PruneImages", "ImagesLoad", "ImagesPull", "PushImage"} THEN BOOLEAN
    ELSE {FALSE}

Repeat(step, n) == [i \in 1..n |-> step]
Optional(step, given) == IF given THEN <<step>> ELSE <<>>

\* The calls of a handler, in program order.
HandlerSteps(h, variant, n, opt) ==
    CASE h = "ImageExists" -> <<"NewFromLocal", "WriteResponse">>
      [] h = "ImageTree" -> <<"NewFromLocal", "Decode", "GenerateTree", "WriteResponse">>
      [] h = "GetImage" -> <<"GetImage", "Inspect", "WriteResponse">>
      [] h = "GetImages" ->
            <<"GetImages">> \o Repeat("ImageToImageSummary", n) \o <<"WriteResponse">>
      [] h = "PruneImages" ->
            <<"Decode">> \o Optional("ParseBool", opt) \o <<"PruneImages", "WriteResponse">>
      [] h = "ExportImage" ->
            CASE variant = "archive" ->
                    <<"Decode", "TempFile", "CloseTemp", "NewFromLocal", "Save",
                      "DeferRemove", "Open", "WriteResponse">>
              [] variant = "dir" ->
                    <<"Decode", "TempDir", "NewFromLocal", "Save", "DeferRemove", "Tar",
                      "WriteResponse">>
              [] OTHER -> <<"Decode", "UnknownFormat">>
      [] h = "ImagesLoad" ->
            <<"Decode", "TempFile", "DeferRemove", "Copy", "LoadImage", "NewFromLocal">>
               \o Optional("TagImage", opt) \o <<"WriteResponse">>
      [] h = "ImagesImport" ->
            IF variant = "url" THEN <<"Decode", "Import", "WriteResponse">>
            ELSE <<"Decode", "TempFile", "DeferRemove", "Copy", "Import", "WriteResponse">>
      [] h = "ImagesPull" ->
            <<"Decode", "ReferenceGiven", "ParseDockerReference", "ParseReference",
              "TagWithAllTags", "ParseRegistryCreds">>
               \o Optional("GetRepositoryTags", opt)
               \o Repeat("New", IF opt THEN n ELSE 1) \o <<"WriteResponse">>
      [] h = "PushImage" ->
            <<"Decode", "ParseStorageReference", "ParseDockerReference", "NewFromLocal">>
               \o Optional("ParseRegistryCreds", opt) \o <<"Push", "WriteResponse">>
      [] h = "CommitContainer" ->
            <<"Decode", "GetConfig", "Format", "LookupContainer", "Commit", "WriteID">>
      [] h = "UntagImage" -> <<"NewFromLocal", "RepoGiven", "UntagImage", "WriteResponse">>

\* The calls that the handler follows with something else than an error
\* response and a return on failure, or that cannot fail.
SpecialSteps == {"TempFile", "TempDir", "DeferRemove", "Inspect", "Commit", "WriteID",
                 "WriteResponse"}
\* "default:" of the format switch: no format is known.
Outcomes(step) == IF step = "UnknownFormat" THEN {FALSE} ELSE BOOLEAN

\* The handler returns: its deferred calls run, os.Remove or os.RemoveAll of
\* the temporary file when that was deferred.
handlerReturns(req) ==
    [req EXCEPT !.returned = TRUE,
                !.tmp = IF req.deferred /\ req.tmp = "exists" THEN "removed" ELSE req.tmp]
writes(req, kind) == [req EXCEPT !.responses = Append(@, kind)]
next(req) == [req EXCEPT !.at = @ + 1]

Running == request.handler # "none" /\ ~request.returned
NowAt(step) == Running /\ request.steps[request.at] = step

APIInit ==
    /\ RestIdle
    /\ threads = NoThreads /\ nsCall = NoNsCall /\ unitCall = NoUnitCall
    /\ \E h \in Handlers : \E variant \in Variants(h), n \in Counts(h), opt \in Options(h) :
          request = [NoRequest EXCEPT !.handler = h,
                                      !.steps = HandlerSteps(h, variant, n, opt)]

\* A call whose failure the handler answers with utils.Error,
\* utils.InternalServerError or utils.ImageNotFound and a return.
CallStep ==
    /\ Running /\ request.steps[request.at] \notin SpecialSteps
    /\ \E ok \in Outcomes(request.steps[request.at]) :
          request' = IF ok THEN next(request)
                     ELSE handlerReturns(writes(request, "error"))
    /\ UNCHANGED <<nonApiVars, threads, nsCall, unitCall>>

\* ioutil.TempFile and ioutil.TempDir.
CreateTemp ==
    /\ NowAt("TempFile") \/ NowAt("TempDir")
    /\ \E ok \in BOOLEAN :
          request' = IF ok THEN next([request EXCEPT !.tmp = "exists"])
                     ELSE handlerReturns(writes(request, "error"))
    /\ UNCHANGED <<nonApiVars, threads, nsCall, unitCall>>

\* "defer os.RemoveAll(output)", "defer os.Remove(tmpfile.Name())".
DeferRemove ==
    /\ NowAt("DeferRemove")
    /\ request' = next([request EXCEPT !.deferred = TRUE])
    /\ UNCHANGED <<nonApiVars, threads, nsCall, unitCall>>

\* GetImage: newImage.Inspect; the message of its error response reads
\* inspect.ID, a nil pointer dereference when Inspect returned no data with
\* its error.
Inspect ==
    /\ NowAt("Inspect")
    /\ \E out \in {"data", "error with data", "error"} :
          request' = CASE out = "data" -> next(request)
                       [] out = "error with data" -> handlerReturns(writes(request, "error"))
                       [] OTHER -> handlerReturns([request EXCEPT !.panicked = TRUE])
    /\ UNCHANGED <<nonApiVars, threads, nsCall, unitCall>>

\* CommitContainer: ctr.Commit; the handler returns an error response for
\* an error unless its text contains "is not running".
Commit ==
    /\ NowAt("Commit")
    /\ \E out \in {"image", "error", "is not running"} :
          request' = CASE out = "image" -> next([request EXCEPT !.image = TRUE])
                       [] out = "error" -> handlerReturns(writes(request, "error"))
                       [] OTHER -> next(request)
    /\ UNCHANGED <<nonApiVars, threads, nsCall, unitCall>>

\* CommitContainer: the response with commitImage.ID(); without an image
\* the call is made on a nil pointer and panics or yields an ID.
WriteID ==
    /\ NowAt("WriteID")
    /\ \E panics \in IF request.image THEN {FALSE} ELSE BOOLEAN :
          request' = IF panics THEN handlerReturns([request EXCEPT !.panicked = TRUE])
                     ELSE handlerReturns(writes(request, "id"))
    /\ UNCHANGED <<nonApiVars, threads, nsCall, unitCall>>

\* utils.WriteResponse at the end of a handler.
WriteResponse ==
    /\ NowAt("WriteResponse")
    /\ request' = handlerReturns(writes(request, "success"))
    /\ UNCHANGED <<nonApiVars, threads, nsCall, unitCall>>

APINext ==
    \/ CallStep
    \/ CreateTemp
    \/ DeferRemove
    \/ Inspect
    \/ Commit
    \/ WriteID
    \/ WriteResponse
SpecAPI == APIInit /\ [][APINext]_vars

\* C39: a handler that returned has written exactly one response, and
\* CommitContainer a response with an image ID only when the commit
\* returned an image.
C39_ExactlyOneResponse ==
    request.returned =>
       /\ Len(request.responses) = 1
       /\ request.responses[1] = "id" => request.image

\* C40: when ExportImage, ImagesLoad or ImagesImport has returned, no
\* temporary file or directory that it created is left.
C40_TempRemovedOnReturn ==
    request.returned /\ request.handler \in TempHandlers => request.tmp # "exists"

-----------------------------------------------------------------------------
\* The systemd unit generator, as its tests describe it.

\* The restart policies that TestValidateRestartPolicy expects to pass, and
\* the strings that the calls are made with: those, the ones the tests
\* expect to fail ("foobar", "", "never") and near misses.
RestartPolicies == {"no", "on-success", "on-failure", "on-abnormal", "on-watchdog",
                    "on-abort", "always"}
PolicyInputs == RestartPolicies \cup {"foobar", "", "never", "Always", "on", "yes"}

C31_AcceptsBlank(restart) ==
    IF restart \in RestartPolicies \cup {""} THEN "nil" ELSE "invalid restart policy"
validateRestartPolicy(restart) ==
    IF restart \in RestartPolicies THEN "nil" ELSE "invalid restart policy"

\* The ContainerInfo of a unit: the fields that the text depends on.
ContainerInfos ==
    [RestartPolicy : PolicyInputs, ServiceName : {"id", "name"}, New : BOOLEAN,
     StopTimeout : 0..MaxStopTimeout]

\* The lines of a unit that depend on the ContainerInfo.
unitText(info) ==
    <<<<"# container-", info.ServiceName, ".service">>,
      <<"Restart=", info.RestartPolicy>>,
      <<"ExecStart=", IF info.New THEN "run" ELSE "start">>,
      <<"ExecStop=", "stop -t", info.StopTimeout>>>>

\* CreateContainerSystemdUnit: the policy is validated before any text is
\* generated; an error comes with the empty string.
CreateContainerSystemdUnit(info) ==
    LET err == validateRestartPolicy(info.RestartPolicy)
    IN  IF err # "nil" THEN [text |-> <<>>, err |-> err]
        ELSE [text |-> unitText(info), err |-> "nil"]

UnitInit ==
    /\ RestIdle
    /\ threads = NoThreads /\ nsCall = NoNsCall /\ request = NoRequest
    /\ unitCall = NoUnitCall

CallValidateRestartPolicy ==
    /\ \E restart \in PolicyInputs :
          unitCall' = [NoUnitCall EXCEPT !.fn = "validateRestartPolicy", !.restart = restart,
                                        !.err = validateRestartPolicy(restart)]
    /\ UNCHANGED <<nonApiVars, threads, nsCall, request>>

CallCreateContainerSystemdUnit ==
    /\ \E info \in ContainerInfos :
          LET r == CreateContainerSystemdUnit(info)
          IN  unitCall' = [NoUnitCall EXCEPT !.fn = "CreateContainerSystemdUnit",
                                            !.restart = info.RestartPolicy, !.info = info,
                                            !.err = r.err, !.text = r.text]
    /\ UNCHANGED <<nonApiVars, threads, nsCall, request>>

UnitNext == CallValidateRestartPolicy \/ CallCreateContainerSystemdUnit
SpecUnit == UnitInit /\ [][UnitNext]_vars

\* C31: validateRestartPolicy returns no error for no, on-success,
\* on-failure, on-abnormal, on-watchdog, on-abort and always and an error for
\* every other string, the empty one included; CreateContainerSystemdUnit
\* returns an error and the empty text for a container whose restart policy
\* is one of the others.
C31_RestartPolicyValidated ==
    LET accepted == unitCall.restart \in {"no", "on-success", "on-failure", "on-abnormal",
                                          "on-watchdog", "on-abort", "always"}
    IN  /\ unitCall.fn = "validateRestartPolicy" => (unitCall.err = "nil" <=> accepted)
        /\ unitCall.fn = "CreateContainerSystemdUnit" /\ ~accepted =>
              unitCall.err # "nil" /\ unitCall.text = <<>>

\* the test case "bad restart policy": a unit asked for with the policy never
C31_Witness ==
    /\ unitCall.fn = "CreateContainerSystemdUnit" /\ unitCall.restart = "never"
    /\ unitCall.err # "nil" /\ unitCall.text = <<>>

\* C33: in a Shutdown with force a failure to list the containers or to stop
\* one of them is only logged: the Shutdown still attempts one stop of every
\* listed container, those after a failed stop included, and it still shuts
\* the store down, when there is one, and closes the state.
C33_FailuresOnlyLogged ==
    /\ life.force /\ life.listed = "ok" /\ life.pc \in {"closing", "ready"} =>
          \A c \in Range(state.ctrs) : life.stops[c] = 1
    /\ life.force /\ life.shut /\ life.pc = "ready" =>
          /\ life.stateCloses = 1
          /\ life.store # "nil" => life.storeShutdowns = 1
          /\ call.op \in {"Shutdown", "DeferredShutdown"} /\ ~call.after =>
                call.err \in {"nil", "none", life.storeErr, "stateclose"}

\* a Shutdown with force went to its end although the stop of the first of
\* two listed containers failed; another although the listing failed
C33_Witness ==
    /\ life.force /\ life.shut /\ life.pc = "ready" /\ life.stateCloses = 1
    /\ Len(state.ctrs) = 2 /\ state.ctrs[1] \in life.stopErrs
    /\ life.stops[state.ctrs[2]] = 1 /\ life.storeShutdowns = 1

C33_WitnessListing ==
    /\ life.force /\ life.listed = "error" /\ life.pc = "ready" /\ life.stateCloses = 1

\* C34: a Shutdown of a valid runtime, with force or without, marks the
\* runtime invalid and calls the Close of the state exactly once, also when
\* it returns the error of the store's shutdown or of that Close.
C34_InvalidAndClosedOnce ==
    /\ life.shut => ~life.valid
    /\ life.shut /\ life.pc = "ready" => life.stateCloses = 1
    /\ life.stateCloses <= 1
    /\ call.op \in {"Shutdown", "DeferredShutdown"} /\ call.attempted =>
          ~life.valid /\ life.stateCloses = 1

\* a Shutdown without force returned the error of the store's shutdown after
\* it closed the state
C34_Witness ==
    /\ call.op = "Shutdown" /\ call.attempted /\ ~call.force
    /\ life.storeErr # "nil" /\ call.err = life.storeErr /\ life.stateCloses = 1

\* C13: a bootstrap that fails at any step returns its error together with a
\* nil Runtime, and the only Runtime handles callers hold come from
\* bootstraps that returned no error after marking the runtime valid. The
\* failure of migrate, after the runtime was marked valid, is one of them.
C13_FailedBootstrapReturnsNil ==
    \A p \in Procs :
       /\ Returned(p) /\ proc[p].err # "nil" => proc[p].handle = "nil"
       /\ proc[p].handle # "nil" => Succeeded(p) /\ runtime[p].valid /\ HasPassed(p, "Valid")

C13_Witness ==
    \E p, q \in Procs :
       /\ Returned(p) /\ proc[p].err = "migrate" /\ runtime[p].valid /\ proc[p].handle = "nil"
       /\ Returned(q) /\ proc[q].err = "config" /\ proc[q].handle = "nil"

====
